---- MODULE Spec2Model ----
(***************************************************************************)
(* Model of the teams-bot planning and routing pipeline: ToolCache,        *)
(* Router (fast-path matcher), Planner, PlanExecutor and the message       *)
(* handler that drives them.  Strings are TLC strings; Len, SubSeq and \o  *)
(* are the only string primitives used.  An argument object is an ordered  *)
(* sequence of [k, t, v] entries (key, JS typeof, printed value), so that  *)
(* the key order JSON.stringify depends on is part of the value.           *)
(***************************************************************************)
EXTENDS Integers, Sequences, FiniteSets, Bags, TLC

(***************************************************************************)
(* String helpers (JavaScript String methods used by the source)           *)
(***************************************************************************)
Char(s, i) == SubSeq(s, i, i)

Upper == "ABCDEFGHIJKLMNOPQRSTUVWXYZ"

Lower == "abcdefghijklmnopqrstuvwxyz"

Digits == "0123456789"

\* the characters of a string, as a set
CharsOf(s) == { Char(s, i) : i \in 1..Len(s) }

IsWS(c) == c \in {" ", "\t"}

IsDigit(c) == c \in CharsOf(Digits)

\* \w of a JavaScript regular expression
IsWordChar(c) == c \in CharsOf(Upper) \cup CharsOf(Lower) \cup CharsOf(Digits) \cup {"_"}

LowerChar(c) ==
  IF \E i \in 1..26 : Char(Upper, i) = c
  THEN Char(Lower, CHOOSE i \in 1..26 : Char(Upper, i) = c)
  ELSE c

RECURSIVE ToLowerCase(_)
ToLowerCase(s) ==
  IF Len(s) = 0 THEN ""
  ELSE LowerChar(Char(s, 1)) \o ToLowerCase(SubSeq(s, 2, Len(s)))

\* String.prototype.includes
Includes(s, t) ==
  \E i \in 1..(Len(s) - Len(t) + 1) : SubSeq(s, i, i + Len(t) - 1) = t

\* sticky, case-insensitive match of the literal t at position i of s
MatchAtCI(s, i, t) ==
  /\ i >= 1
  /\ i + Len(t) - 1 <= Len(s)
  /\ ToLowerCase(SubSeq(s, i, i + Len(t) - 1)) = ToLowerCase(t)

RECURSIVE TrimStart(_)
TrimStart(s) ==
  IF Len(s) > 0 /\ IsWS(Char(s, 1)) THEN TrimStart(SubSeq(s, 2, Len(s))) ELSE s

RECURSIVE TrimEnd(_)
TrimEnd(s) ==
  IF Len(s) > 0 /\ IsWS(Char(s, Len(s))) THEN TrimEnd(SubSeq(s, 1, Len(s) - 1)) ELSE s

Trim(s) == TrimEnd(TrimStart(s))

\* s.split(re) where re matches maximal runs of separator characters
\* (/\s+/ and /[_\s]+/): cur is the piece being read, inSep says whether the
\* previous character was a separator
RECURSIVE SplitRuns(_, _, _, _)
SplitRuns(s, seps, cur, inSep) ==
  IF Len(s) = 0 THEN <<cur>>
  ELSE IF Char(s, 1) \in seps
       THEN IF inSep
            THEN SplitRuns(SubSeq(s, 2, Len(s)), seps, cur, TRUE)
            ELSE <<cur>> \o SplitRuns(SubSeq(s, 2, Len(s)), seps, "", TRUE)
       ELSE SplitRuns(SubSeq(s, 2, Len(s)), seps, cur \o Char(s, 1), FALSE)

SplitWS(s) == SplitRuns(s, {" ", "\t"}, "", FALSE)

SplitNameSeps(s) == SplitRuns(s, {"_", " ", "\t"}, "", FALSE)

\* Array.prototype.join
RECURSIVE Join(_, _)
Join(seq, sep) ==
  IF Len(seq) = 0 THEN ""
  ELSE IF Len(seq) = 1 THEN seq[1]
  ELSE seq[1] \o sep \o Join(Tail(seq), sep)

Range(seq) == { seq[i] : i \in 1..Len(seq) }

(***************************************************************************)
(* ToolCache (src/src/toolCache.ts)                                        *)
(***************************************************************************)
\* one entry of an argument object: key, typeof of the value, printed value
StrArg(k, v) == [k |-> k, t |-> "string", v |-> v]

NumArg(k, v) == [k |-> k, t |-> "number", v |-> v]

BoolArg(k, v) == [k |-> k, t |-> "boolean", v |-> v]

\* Object.keys(args)
RECURSIVE Keys(_)
Keys(args) == IF Len(args) = 0 THEN <<>> ELSE <<args[1].k>> \o Keys(Tail(args))

\* key in args
HasKey(args, k) == \E i \in 1..Len(args) : args[i].k = k

\* a tool as the remote server lists it; hasProps is FALSE when
\* inputSchema or inputSchema.properties is absent
ServerTool(name, desc, hasProps, props, req) ==
  [name |-> name, description |-> desc,
   inputSchema |-> [hasProps |-> hasProps, properties |-> props, required |-> req]]

Prop(name, type) == [name |-> name, type |-> type]

\* the generic example's args: one entry per string/number/boolean property
RECURSIVE GenericExampleArgs(_)
GenericExampleArgs(props) ==
  IF Len(props) = 0 THEN <<>>
  ELSE (IF props[1].type = "string" THEN <<StrArg(props[1].name, "example-" \o props[1].name)>>
        ELSE IF props[1].type = "number" THEN <<NumArg(props[1].name, "123")>>
        ELSE IF props[1].type = "boolean" THEN <<BoolArg(props[1].name, "true")>>
        ELSE <<>>)
       \o GenericExampleArgs(Tail(props))

Example(q, a) == [query |-> q, args |-> a]

generateExamples(toolName, description, schema) ==
  LET keyed ==
        IF toolName = "send_document" THEN
          << Example("send me the ecp checklist", <<StrArg("query", "ecp checklist")>>),
             Example("where is the submittal package", <<StrArg("query", "submittal package")>>),
             Example("get me the project deadline document", <<StrArg("query", "project deadline")>>) >>
        ELSE IF Includes(toolName, "project") THEN
          << Example("show me project details", <<>>),
             Example("what projects do we have", <<>>) >>
        ELSE IF Includes(toolName, "user") \/ Includes(toolName, "users") THEN
          << Example("list all users", <<>>),
             Example("who are the team members", <<>>) >>
        ELSE IF Includes(toolName, "document") \/ Includes(toolName, "doc") THEN
          << Example("get document by id", <<StrArg("id", "example-id")>>),
             Example("find document", <<StrArg("query", "example")>>) >>
        ELSE IF Includes(toolName, "client") THEN
          << Example("get client information", <<>>),
             Example("show me client details", <<>>) >>
        ELSE IF Includes(toolName, "phone") \/ Includes(toolName, "phone_number") THEN
          << Example("get phone number for client", <<>>),
             Example("what is the phone number", <<>>),
             Example("send me phone number", <<>>),
             Example("send me burkards number", <<>>),
             Example("get burkards phone", <<>>),
             Example("phone number", <<>>) >>
        ELSE IF Includes(toolName, "email") THEN
          << Example("get email address for client", <<>>),
             Example("what is the email", <<>>),
             Example("send me email", <<>>),
             Example("send me burkards email", <<>>),
             Example("get bruce harveys email", <<>>),
             Example("email address", <<>>) >>
        ELSE IF Includes(toolName, "address") THEN
          << Example("get address for client", <<>>),
             Example("what is the address", <<>>),
             Example("send me address", <<>>),
             Example("address", <<>>) >>
        ELSE <<>>
      exampleArgs == GenericExampleArgs(schema.properties)
      generic ==
        IF schema.hasProps /\ Len(schema.properties) > 0 /\ Len(exampleArgs) > 0
        THEN << Example("use " \o toolName \o " with " \o Join(Keys(exampleArgs), " and "),
                        exampleArgs) >>
        ELSE <<>>
  IN keyed \o generic

destructiveKeywords == <<"delete", "remove", "destroy", "drop", "clear", "truncate", "cancel">>

writeKeywords == <<"create", "update", "edit", "modify", "add", "insert", "save", "set", "post", "put", "patch">>

\* a variant of analyzeSafety whose write flag looks at the write keywords only
analyzeSafety_WriteKeywordsOnly(toolName, description, schema) ==
  LET lowerName == ToLowerCase(toolName)
      lowerDesc == ToLowerCase(description)
      destructive == \E i \in 1..Len(destructiveKeywords) :
                        \/ Includes(lowerName, destructiveKeywords[i])
                        \/ Includes(lowerDesc, destructiveKeywords[i])
      write == \E i \in 1..Len(writeKeywords) :
                  \/ Includes(lowerName, writeKeywords[i])
                  \/ Includes(lowerDesc, writeKeywords[i])
      read == ~write /\ ~destructive
  IN [read |-> read, write |-> write, destructive |-> destructive]

analyzeSafety(toolName, description, schema) ==
  LET lowerName == ToLowerCase(toolName)
      lowerDesc == ToLowerCase(description)
      destructive == \E i \in 1..Len(destructiveKeywords) :
                        \/ Includes(lowerName, destructiveKeywords[i])
                        \/ Includes(lowerDesc, destructiveKeywords[i])
      write == \/ \E i \in 1..Len(writeKeywords) :
                     \/ Includes(lowerName, writeKeywords[i])
                     \/ Includes(lowerDesc, writeKeywords[i])
               \/ destructive
      read == ~write /\ ~destructive
  IN [read |-> read, write |-> write, destructive |-> destructive]

\* the ToolMetadata refresh() builds for one listed tool
ToolMetadata(tool) ==
  [name |-> tool.name,
   description |-> tool.description,
   inputSchema |-> tool.inputSchema,
   examples |-> generateExamples(tool.name, tool.description, tool.inputSchema),
   safety |-> analyzeSafety(tool.name, tool.description, tool.inputSchema)]

\* Map.set(name, metadata): a later tool of the same name replaces the
\* value and keeps the position of the first insertion
RECURSIVE MapSet(_, _)
MapSet(table, md) ==
  IF Len(table) = 0 THEN <<md>>
  ELSE IF table[1].name = md.name THEN <<md>> \o Tail(table)
  ELSE <<table[1]>> \o MapSet(Tail(table), md)

\* the table refresh() leaves after a successful listTools: clear(), then
\* one set() per listed tool, with no suspension point in between
RECURSIVE RefreshTable(_, _)
RefreshTable(toolList, table) ==
  IF Len(toolList) = 0 THEN table
  ELSE RefreshTable(Tail(toolList), MapSet(table, ToolMetadata(toolList[1])))

\* getTool(name): a one-element or empty sequence (undefined)
getTool(table, name) == SelectSeq(table, LAMBDA md : md.name = name)

\* getAllTools(): Array.from(this.tools.values())
getAllTools(table) == table


(***************************************************************************)
(* Router: argument extraction (src/src/router.ts, extractArgsFromMessage) *)
(* A value that several lines of the source read is passed as an operator  *)
(* parameter, so every operator mentions each sub-computation once.        *)
(***************************************************************************)
\* absent result of String.prototype.match / a null return
Null == [null |-> TRUE]

Some(v) == [null |-> FALSE, v |-> v]

\* a || b on match results
OrElse(a, b) == IF a.null THEN b ELSE a

Min(a, b) == IF a <= b THEN a ELSE b

MinOf(S) == CHOOSE p \in S : \A q \in S : p <= q

MaxOf(S) == CHOOSE p \in S : \A q \in S : q <= p

\* least element, 0 for the empty set
FirstPos(S) == IF S = {} THEN 0 ELSE MinOf(S)

\* greatest element, 0 for the empty set
LastPos(S) == IF S = {} THEN 0 ELSE MaxOf(S)

\* index of the first non-whitespace character at or after i (Len(s)+1 if none)
RECURSIVE SkipWS(_, _)
SkipWS(s, i) == IF i <= Len(s) /\ IsWS(Char(s, i)) THEN SkipWS(s, i + 1) ELSE i

\* end of the maximal run of characters of the class cls from i on
\* (i - 1 when the run is empty)
RECURSIVE RunEnd(_, _, _)
RunEnd(s, i, cls) ==
  IF i <= Len(s) /\ Char(s, i) \in cls THEN RunEnd(s, i + 1, cls) ELSE i - 1

\* \b before position i (1..Len(s)+1)
Boundary(s, i) ==
  (i >= 2 /\ i - 1 <= Len(s) /\ IsWordChar(Char(s, i - 1)))
    # (i >= 1 /\ i <= Len(s) /\ IsWordChar(Char(s, i)))

\* q is the position after `${name}\s*`: the position after `[:=]\s*`, or 0
AfterSep(s, q) ==
  IF q <= Len(s) /\ Char(s, q) \in {":", "="} THEN SkipWS(s, q + 1) ELSE 0

\* position after `${name}\s*[:=]\s*` matched at p, or 0
AfterNameSep(s, p, name) ==
  IF MatchAtCI(s, p, name) THEN AfterSep(s, SkipWS(s, p + Len(name))) ELSE 0

\* the group ([^"']+) opened at q + 1 and closed by the quote at e (0: none)
QuotedGroup(s, q, e) ==
  IF e = 0 \/ e = q + 1 THEN Null ELSE Some(SubSeq(s, q + 1, e - 1))

\* q is the position after `${name}\s*[:=]\s*` (0: no match)
QuotedFrom(s, q) ==
  IF q = 0 \/ q > Len(s) \/ Char(s, q) \notin {"\"", "'"} THEN Null
  ELSE QuotedGroup(s, q, FirstPos({ e \in (q + 1)..Len(s) : Char(s, e) \in {"\"", "'"} }))

QuotedAt(s, p, name) == IF p = 0 THEN Null ELSE QuotedFrom(s, AfterNameSep(s, p, name))

\* message.match(new RegExp(`${propName}\\s*[:=]\\s*["']([^"']+)["']`, 'i'))[1]
quotedMatch(s, name) ==
  QuotedAt(s, FirstPos({ p \in 1..Len(s) : ~QuotedAt(s, p, name).null }), name)

\* q is the position after the literal, q1 the position after `\s*`
WordAfter(s, q, q1) ==
  IF q1 = q \/ q1 > Len(s) THEN Null
  ELSE Some(SubSeq(s, q1, RunEnd(s, q1, CharsOf(s) \ {" ", "\t"})))

PropAt(s, p, name) ==
  IF p = 0 \/ ~MatchAtCI(s, p, name) THEN Null
  ELSE WordAfter(s, p + Len(name), SkipWS(s, p + Len(name)))

\* message.match(new RegExp(`${propName}\\s+(\\S+)`, 'i'))[1]
propMatch(s, name) ==
  PropAt(s, FirstPos({ p \in 1..Len(s) : ~PropAt(s, p, name).null }), name)

queryVerbs == <<"for", "about", "search", "find", "get", "show", "send", "give">>

\* the group (.+) after `verb\s+`: q is the position after the verb, q1
\* the position after the whitespace run
RestAfter(s, q, q1) ==
  IF q1 = q THEN Null
  ELSE IF q1 <= Len(s) THEN Some(SubSeq(s, q1, Len(s)))
  ELSE IF q1 - q >= 2 THEN Some(SubSeq(s, Len(s), Len(s)))
  ELSE Null

\* v is the index of the verb matching at p (0: none)
QueryVerbAt(s, p, v) ==
  IF v = 0 THEN Null
  ELSE RestAfter(s, p + Len(queryVerbs[v]), SkipWS(s, p + Len(queryVerbs[v])))

QueryAt(s, p) ==
  IF p = 0 THEN Null
  ELSE QueryVerbAt(s, p, FirstPos({ i \in 1..Len(queryVerbs) : MatchAtCI(s, p, queryVerbs[i]) }))

\* message.match(/(?:for|about|search|find|get|show|send|give)\s+(.+)/i)[1]
queryMatch(s) == QueryAt(s, FirstPos({ p \in 1..Len(s) : ~QueryAt(s, p).null }))

\* the token from p to e (0: no end with a boundary)
TokenTo(s, p, e) == IF e = 0 THEN Null ELSE Some(SubSeq(s, p, e))

\* /\b(cls+)\b/ tried at p: the longest run that ends at a boundary
TokenAt(s, p, cls) ==
  IF p = 0 \/ ~Boundary(s, p) THEN Null
  ELSE TokenTo(s, p, LastPos({ e \in p..RunEnd(s, p, cls) : Boundary(s, e + 1) }))

tokenMatch(s, cls) ==
  TokenAt(s, FirstPos({ p \in 1..Len(s) : ~TokenAt(s, p, cls).null }), cls)

\* message.match(/\b([a-z0-9_-]+)\b/i)[1]
idMatch(s) ==
  tokenMatch(s, CharsOf(Upper) \cup CharsOf(Lower) \cup CharsOf(Digits) \cup {"_", "-"})

\* message.match(/\b(\d+)\b/)[1]
anyNumMatch(s) == tokenMatch(s, CharsOf(Digits))

\* the group (\d+) from q to e
DigitsTo(s, q, e) == IF q = 0 \/ e < q THEN Null ELSE Some(SubSeq(s, q, e))

DigitsFrom(s, q) == DigitsTo(s, q, RunEnd(s, q, CharsOf(Digits)))

NumAt(s, p, name) == IF p = 0 THEN Null ELSE DigitsFrom(s, AfterNameSep(s, p, name))

\* message.match(new RegExp(`${propName}\\s*[:=]\\s*(\\d+)`, 'i'))[1]
numMatch(s, name) ==
  NumAt(s, FirstPos({ p \in 1..Len(s) : ~NumAt(s, p, name).null }), name)

boolWords == <<"true", "false", "yes", "no">>

\* w is the index of the alternative matching at q (0: none)
BoolWordAt(s, q, w) ==
  IF w = 0 THEN Null ELSE Some(SubSeq(s, q, q + Len(boolWords[w]) - 1))

BoolFrom(s, q) ==
  IF q = 0 THEN Null
  ELSE BoolWordAt(s, q, FirstPos({ i \in 1..Len(boolWords) : MatchAtCI(s, q, boolWords[i]) }))

BoolAt(s, p, name) == IF p = 0 THEN Null ELSE BoolFrom(s, AfterNameSep(s, p, name))

\* message.match(new RegExp(`${propName}\\s*[:=]\\s*(true|false|yes|no)`, 'i'))[1]
boolMatch(s, name) ==
  BoolAt(s, FirstPos({ p \in 1..Len(s) : ~BoolAt(s, p, name).null }), name)

\* the printed form of parseInt(digits, 10): leading zeros dropped
RECURSIVE parseInt(_)
parseInt(d) == IF Len(d) > 1 /\ Char(d, 1) = "0" THEN parseInt(SubSeq(d, 2, Len(d))) ELSE d

\* args[propName] = <the matched text>, for a match result m
AsString(propName, m) == IF m.null THEN Null ELSE Some(StrArg(propName, m.v))

AsTrimmed(propName, m) == IF m.null THEN Null ELSE Some(StrArg(propName, Trim(m.v)))

AsNumber(propName, m) == IF m.null THEN Null ELSE Some(NumArg(propName, parseInt(m.v)))

AsBoolean(propName, m) ==
  IF m.null THEN Null
  ELSE Some(BoolArg(propName,
                    IF ToLowerCase(m.v) \in {"true", "yes"} THEN "true" ELSE "false"))

\* the query-like and ID-like branches apply only to matching property names
QueryLike(lname) == Includes(lname, "query") \/ Includes(lname, "search")

IdLike(lname) == Includes(lname, "id") \/ Includes(lname, "identifier")

ExtractString(message, propName, lname) ==
  OrElse(AsString(propName, quotedMatch(message, propName)),
    OrElse(AsString(propName, propMatch(message, propName)),
      OrElse(IF QueryLike(lname) THEN AsTrimmed(propName, queryMatch(message)) ELSE Null,
             IF IdLike(lname) THEN AsString(propName, idMatch(message)) ELSE Null)))

ExtractNumber(message, propName) ==
  OrElse(AsNumber(propName, numMatch(message, propName)),
         AsNumber(propName, anyNumMatch(message)))

ExtractBoolean(message, propName) == AsBoolean(propName, boolMatch(message, propName))

\* propType is `propSchema.type || 'string'`
ExtractTyped(message, propName, propType) ==
  IF propType = "string" THEN ExtractString(message, propName, ToLowerCase(propName))
  ELSE IF propType = "number" THEN ExtractNumber(message, propName)
  ELSE IF propType = "boolean" THEN ExtractBoolean(message, propName)
  ELSE Null

\* the value the loop body finds for one property, or Null
ExtractProp(message, prop) ==
  ExtractTyped(message, prop.name, IF prop.type = "" THEN "string" ELSE prop.type)

\* args after the loop body ran with result found
WithFound(args, found) == IF found.null THEN args ELSE Append(args, found.v)

\* the for loop over Object.entries(properties)
RECURSIVE ExtractLoop(_, _, _)
ExtractLoop(message, props, args) ==
  IF Len(props) = 0 THEN args
  ELSE IF HasKey(args, props[1].name) THEN ExtractLoop(message, Tail(props), args)
  ELSE ExtractLoop(message, Tail(props), WithFound(args, ExtractProp(message, props[1])))

\* a variant of AcceptArgs that fails whenever a required property is missing
AcceptArgs_AllRequired(args, required) ==
  IF \A i \in 1..Len(required) : HasKey(args, required[i]) THEN Some(args) ELSE Null

\* lines 276-295: what extractArgsFromMessage returns for the filled args
AcceptArgs(args, required) ==
  IF Len(required) = 0 \/ (\A i \in 1..Len(required) : HasKey(args, required[i]))
  THEN IF Len(args) = 0 /\ Len(required) > 0 THEN Null ELSE Some(args)
  ELSE IF Len(args) > 0 THEN Some(args)
  ELSE Null

extractArgsFromMessage(message, tool, exampleArgs) ==
  AcceptArgs(ExtractLoop(message,
                         IF tool.inputSchema.hasProps THEN tool.inputSchema.properties ELSE <<>>,
                         exampleArgs),
             tool.inputSchema.required)

(***************************************************************************)
(* Router: fast-path matcher (src/src/router.ts, tryFastPath)              *)
(***************************************************************************)
\* a confidence is the exact rational n/d (d > 0) of the source's double
Conf(n, d) == [n |-> n, d |-> d]

ConfGeq(a, b) == a.n * b.d >= b.n * a.d

ConfGt(a, b) == a.n * b.d > b.n * a.d

ConfMin(a, b) == IF ConfGeq(b, a) THEN a ELSE b

FastPathMatch(tool, args, confidence) ==
  [tool |-> tool, args |-> args, confidence |-> confidence]

\* matches.push({ tool, args, confidence }) unless args is null
PushMatch(toolName, args, confidence) ==
  IF args.null THEN <<>> ELSE <<FastPathMatch(toolName, args.v, confidence)>>

documentKeywords == <<"document", "doc", "checklist", "package", "file", "pdf", "submittal", "ecp">>

isDocumentRequest(lowerMessage) ==
  \E i \in 1..Len(documentKeywords) : Includes(lowerMessage, documentKeywords[i])

\* a variant of SkipSendDocument without the document-keyword guard
SkipSendDocument_Never(tool, lowerMessage) == FALSE

\* the guard `tool.name === 'send_document' && !isDocumentRequest`
SkipSendDocument(tool, lowerMessage) ==
  tool.name = "send_document" /\ ~isDocumentRequest(lowerMessage)

\* the example's words (length > 2) that match some word of the message
MatchingWords(exampleWords, messageWords) ==
  SelectSeq(exampleWords,
            LAMBDA ew : \E i \in 1..Len(messageWords) :
                           Includes(messageWords[i], ew) \/ Includes(ew, messageWords[i]))

\* a variant of GoodOverlap that accepts an overlap of exactly one half
GoodOverlap_AtLeastHalf(matching, total) ==
  /\ matching >= Min(2, total)
  /\ ConfGeq(IF total > 0 THEN Conf(matching, total) ELSE Conf(0, 1), Conf(1, 2))

\* matching / total example words pass the test of line 108
GoodOverlap(matching, total) ==
  /\ matching >= Min(2, total)
  /\ ConfGt(IF total > 0 THEN Conf(matching, total) ELSE Conf(0, 1), Conf(1, 2))

ExampleScored(message, tool, example, matching, total) ==
  IF GoodOverlap(matching, total)
  THEN PushMatch(tool.name, extractArgsFromMessage(message, tool, example.args),
                 Conf(matching, total))
  ELSE <<>>

ExampleWords(example) ==
  SelectSeq(SplitWS(ToLowerCase(example.query)), LAMBDA w : Len(w) > 2)

\* the body of the loop over tool.examples, for one example
ExampleMatch(message, lowerMessage, tool, example) ==
  ExampleScored(message, tool, example,
                Len(MatchingWords(ExampleWords(example), SplitWS(lowerMessage))),
                Len(ExampleWords(example)))

RECURSIVE ExampleMatches(_, _, _, _)
ExampleMatches(message, lowerMessage, tool, examples) ==
  IF Len(examples) = 0 THEN <<>>
  ELSE ExampleMatch(message, lowerMessage, tool, examples[1])
       \o ExampleMatches(message, lowerMessage, tool, Tail(examples))

toolNameWords(tool) ==
  SelectSeq(SplitNameSeps(ToLowerCase(tool.name)), LAMBDA w : Len(w) > 3)

descWords(tool) ==
  SelectSeq(SplitWS(ToLowerCase(tool.description)), LAMBDA w : Len(w) > 4)

\* words.filter(word => lowerMessage.includes(word)).length
CountIn(words, lowerMessage) ==
  Len(SelectSeq(words, LAMBDA w : Includes(lowerMessage, w)))

\* name keywords: 0.6 + (hits / total) * 0.2, capped at 0.9
NameConfidence(hits, total) == ConfMin(Conf(3 * total + hits, 5 * total), Conf(9, 10))

\* description keywords: 0.5 + (hits / total) * 0.1, capped at 0.7
DescConfidence(hits, total) == ConfMin(Conf(5 * total + hits, 10 * total), Conf(7, 10))

\* lines 143-163, with hits of total description words found in the message
DescScored(message, lowerMessage, tool, hits, total) ==
  IF hits > 0 /\ ~SkipSendDocument(tool, lowerMessage)
  THEN PushMatch(tool.name, extractArgsFromMessage(message, tool, <<>>),
                 DescConfidence(hits, total))
  ELSE <<>>

DescMatch(message, lowerMessage, tool) ==
  DescScored(message, lowerMessage, tool,
             CountIn(descWords(tool), lowerMessage), Len(descWords(tool)))

\* lines 120-163, with hits of total name words found in the message; the
\* `continue` of the name branch also skips the description branch
NameScored(message, lowerMessage, tool, hits, total) ==
  IF hits > 0 /\ SkipSendDocument(tool, lowerMessage) THEN <<>>
  ELSE (IF hits > 0
        THEN PushMatch(tool.name, extractArgsFromMessage(message, tool, <<>>),
                       NameConfidence(hits, total))
        ELSE <<>>)
       \o DescMatch(message, lowerMessage, tool)

NameAndDescMatch(message, lowerMessage, tool) ==
  NameScored(message, lowerMessage, tool,
             CountIn(toolNameWords(tool), lowerMessage), Len(toolNameWords(tool)))

\* one iteration of `for (const tool of allTools)`
ToolMatches(message, lowerMessage, tool) ==
  IF SkipSendDocument(tool, lowerMessage) THEN <<>>
  ELSE ExampleMatches(message, lowerMessage, tool, tool.examples)
       \o NameAndDescMatch(message, lowerMessage, tool)

RECURSIVE AllToolMatches(_, _, _)
AllToolMatches(message, lowerMessage, allTools) ==
  IF Len(allTools) = 0 THEN <<>>
  ELSE ToolMatches(message, lowerMessage, allTools[1])
       \o AllToolMatches(message, lowerMessage, Tail(allTools))

\* the pool `matches` at line 166, before sorting and selection
EmitCandidates(message, table) ==
  AllToolMatches(message, Trim(ToLowerCase(message)), getAllTools(table))

\* insertion of m into a sequence sorted by confidence, highest first,
\* after every element that does not compare lower (the sort is stable)
RECURSIVE InsertByConfidence(_, _)
InsertByConfidence(sorted, m) ==
  IF Len(sorted) = 0 THEN <<m>>
  ELSE IF ConfGeq(sorted[1].confidence, m.confidence)
       THEN <<sorted[1]>> \o InsertByConfidence(Tail(sorted), m)
       ELSE <<m>> \o sorted

\* matches.sort((a, b) => b.confidence - a.confidence)
RECURSIVE SortByConfidence(_)
SortByConfidence(ms) ==
  IF Len(ms) = 0 THEN <<>>
  ELSE InsertByConfidence(SortByConfidence(SubSeq(ms, 1, Len(ms) - 1)), ms[Len(ms)])

\* a variant of threshold with a stricter base confidence
threshold_Strict == Conf(7, 10)

threshold == Conf(5, 10)

highConfidenceThreshold == Conf(6, 10)

lowerThreshold == Conf(4, 10)

\* matches.filter(match => match.confidence >= t)
AtLeast(ms, t) == SelectSeq(ms, LAMBDA m : ConfGeq(m.confidence, t))

\* lines 177-194 on the sorted pool
SelectSorted(sorted, validMatches) ==
  IF Len(validMatches) > 0
     /\ \E i \in 1..Len(validMatches) :
           ConfGeq(validMatches[i].confidence, highConfidenceThreshold)
  THEN AtLeast(sorted, lowerThreshold)
  ELSE validMatches

SelectFrom(sorted) == SelectSorted(sorted, AtLeast(sorted, threshold))

\* lines 166-195: the selection over the pooled candidates
SelectMatches(pool) == IF Len(pool) = 0 THEN <<>> ELSE SelectFrom(SortByConfidence(pool))

tryFastPath(message, table) == SelectMatches(EmitCandidates(message, table))

\* the Map key `${match.tool}:${JSON.stringify(match.args)}`: the tool name
\* and the entries of args in insertion order
DedupKey(match) == <<match.tool, match.args>>

\* seen.set / seen.get of deduplicateMatches for one match
RECURSIVE SeenPut(_, _)
SeenPut(seen, match) ==
  IF Len(seen) = 0 THEN <<match>>
  ELSE IF DedupKey(seen[1]) = DedupKey(match)
       THEN <<IF ConfGt(match.confidence, seen[1].confidence) THEN match ELSE seen[1]>>
            \o Tail(seen)
       ELSE <<seen[1]>> \o SeenPut(Tail(seen), match)

RECURSIVE SeenAll(_, _)
SeenAll(ms, seen) ==
  IF Len(ms) = 0 THEN seen
  ELSE SeenAll(Tail(ms), SeenPut(seen, ms[1]))

deduplicateMatches(ms) == SortByConfidence(SeenAll(ms, <<>>))

PlanCall(tool, args) == [tool |-> tool, args |-> args]

RECURSIVE MatchCalls(_)
MatchCalls(ms) ==
  IF Len(ms) = 0 THEN <<>>
  ELSE <<PlanCall(ms[1].tool, ms[1].args)>> \o MatchCalls(Tail(ms))

\* a variant of FastPathPlan that keeps only the best match
FastPathPlan_BestOnly(found) ==
  [calls |-> MatchCalls(SubSeq(deduplicateMatches(found), 1, 1)),
   needs_confirmation |-> FALSE,
   hasFallback |-> FALSE, fallback_text |-> ""]

\* the Plan route() returns on the fast path (fallback_text absent)
FastPathPlan(found) ==
  [calls |-> MatchCalls(deduplicateMatches(found)),
   needs_confirmation |-> FALSE,
   hasFallback |-> FALSE, fallback_text |-> ""]

(***************************************************************************)
(* Planner (src/dist/planner.js) and PlanExecutor (src/src/planExecutor.ts)*)
(***************************************************************************)
\* a call of a parsed response: toolType is typeof call.tool (tool is "" when
\* it is absent), argsKind says what call.args is
ModelCall(tool, toolType, args, argsKind) ==
  [tool |-> tool, args |-> args, toolType |-> toolType, argsKind |-> argsKind]

\* typeof call.args
TypeofArgs(argsKind) ==
  IF argsKind \in {"object", "array", "null"} THEN "object" ELSE argsKind

\* the body of validatePlan's loop does not throw for this call
ValidModelCall(call, table) ==
  /\ call.tool # "" /\ call.toolType = "string"
  /\ call.argsKind \notin {"null", "undefined"} /\ TypeofArgs(call.argsKind) = "object"
  /\ Len(getTool(table, call.tool)) > 0

\* a variant of validatePlan that only checks that calls is an array
validatePlan_ArrayOnly(resp, table) == resp.callsIsArray

\* validatePlan returns without throwing
validatePlan(resp, table) ==
  /\ resp.callsIsArray
  /\ \A i \in 1..Len(resp.calls) : ValidModelCall(resp.calls[i], table)

FallbackText ==
  "Look, I tried my best to understand what you're asking for, but even my superior AI brain is confused. "
    \o "Could you maybe try using actual words next time? Just kidding... mostly. Could you rephrase that?"

\* the fixed plan of the catch block of Planner.plan
FallbackPlan ==
  [calls |-> <<>>, needs_confirmation |-> FALSE, hasFallback |-> TRUE,
   fallback_text |-> FallbackText]

\* the plan Planner.plan returns for a parsed and validated response
ParsedPlan(resp) ==
  [calls |-> resp.calls,
   needs_confirmation |-> resp.needs_confirmation,
   hasFallback |-> resp.hasFallback,
   fallback_text |-> resp.fallback_text]

\* a variant of PlannerPlan that returns whatever it could read of the response
PlannerPlan_NoCatch(resp, table) == ParsedPlan(resp)

\* what Planner.plan resolves to for the model's response text
PlannerPlan(resp, table) ==
  IF resp.json /\ validatePlan(resp, table) THEN ParsedPlan(resp) ELSE FallbackPlan

\* the type validation loop of validateCall rejects this entry of call.args
TypeMismatch(schema, arg) ==
  \E j \in 1..Len(schema.properties) :
     /\ schema.properties[j].name = arg.k
     /\ schema.properties[j].type \in {"string", "number", "boolean"}
     /\ schema.properties[j].type # arg.t

DeclaredType(schema, k) ==
  LET js == { j \in 1..Len(schema.properties) : schema.properties[j].name = k }
  IN schema.properties[MaxOf(js)].type

validateCall(call, table) ==
  LET found == getTool(table, call.tool)
  IN IF Len(found) = 0 THEN Some("Unknown tool: " \o call.tool)
     ELSE LET schema == found[1].inputSchema
              missing == { i \in 1..Len(schema.required) : ~HasKey(call.args, schema.required[i]) }
              bad == { i \in 1..Len(call.args) : TypeMismatch(schema, call.args[i]) }
          IN IF ~schema.hasProps THEN Null
             ELSE IF missing # {}
               THEN Some("Missing required argument: " \o schema.required[MinOf(missing)])
             ELSE IF bad # {}
               THEN Some("Invalid type for " \o call.args[MinOf(bad)].k \o ": expected "
                         \o DeclaredType(schema, call.args[MinOf(bad)].k)
                         \o ", got " \o call.args[MinOf(bad)].t)
             ELSE Null

\* error.message || String(error)
ErrorText(msg) == IF msg = "" THEN "Error" ELSE msg

\* a variant of executeCallError that rethrows the remote error unwrapped
executeCallError_Unwrapped(call, msg) == ErrorText(msg)

\* the Error executeCall throws when callTool rejects with message msg
executeCallError(call, msg) == "Tool execution failed: " \o ErrorText(msg)

\* the ExecutionResult execute() starts from
NewResult(p) ==
  [success |-> TRUE, results |-> <<>>, errors |-> <<>>,
   needsConfirmation |-> p.needs_confirmation]

\* a variant of PushError that forgets `result.success = false`
PushError_KeepSuccess(res, call, i, msg) ==
  [res EXCEPT !.errors = Append(@, [call |-> call, index |-> i, error |-> msg])]

\* result.errors.push({ call, error }); result.success = false
PushError(res, call, i, msg) ==
  [res EXCEPT !.errors = Append(@, [call |-> call, index |-> i, error |-> msg]),
              !.success = FALSE]

\* result.results.push(toolResult)
PushResult(res, i, data) ==
  [res EXCEPT !.results = Append(@, [index |-> i, data |-> data])]

\* a variant of EntersLoop that ignores needs_confirmation
EntersLoop_Always(p) == TRUE

\* `if (plan.needs_confirmation) return result;` decides whether the loop runs
EntersLoop(p) == ~p.needs_confirmation

(***************************************************************************)
(* ContextProvider (src/unnamed/part_001): discovery and the entity        *)
(* catalog.  An item of a resource payload is an object, written like an   *)
(* argument object as the ordered sequence of its [k, t, v] entries, or    *)
(* the JSON value null.                                                    *)
(***************************************************************************)
\* ContextProvider.entityRefreshInterval, in milliseconds
entityRefreshInterval == 300000

\* items.slice(0, 100)
maxEntities == 100

\* String.prototype.endsWith
EndsWith(s, t) == Len(s) >= Len(t) /\ SubSeq(s, Len(s) - Len(t) + 1, Len(s)) = t

\* a variant of IsListEndpoint that accepts every listed resource
IsListEndpoint_Any(r) == TRUE

\* the filter of discoverResources; a resource listed without a uri has the
\* uri "" here (r.uri || '')
IsListEndpoint(r) == EndsWith(r.uri, "://all") \/ Includes(r.uri, "://all/")

\* discoverResources when listResources resolved with these resources
Discovered(resources) == SelectSeq(resources, IsListEndpoint)

\* discoverResources when listResources rejected
DefaultResources ==
  << [uri |-> "projects://all"], [uri |-> "users://all"], [uri |-> "documents://all"] >>

\* uri.match(/^([^:]+):/): the text before the first colon, if there is any
ResourceType(uri) ==
  IF FirstPos({ i \in 1..Len(uri) : Char(uri, i) = ":" }) >= 2
  THEN Some(SubSeq(uri, 1, FirstPos({ i \in 1..Len(uri) : Char(uri, i) = ":" }) - 1))
  ELSE Null

\* JavaScript truthiness of the value of an entry
Truthy(e) ==
  CASE e.t = "string" -> e.v /= ""
    [] e.t = "number" -> e.v \notin {"0", "NaN"}
    [] e.t = "boolean" -> e.v = "true"
    [] OTHER -> TRUE

\* item[k]
Field(item, k) ==
  IF \E i \in 1..Len(item) : item[i].k = k
  THEN Some(item[CHOOSE i \in 1..Len(item) : item[i].k = k])
  ELSE Null

\* item[keys[1]] || item[keys[2]] || ... : the first truthy field, if any
RECURSIVE FirstTruthy(_, _)
FirstTruthy(item, keys) ==
  IF Len(keys) = 0 THEN Null
  ELSE IF ~Field(item, keys[1]).null /\ Truthy(Field(item, keys[1]).v)
       THEN Field(item, keys[1])
       ELSE FirstTruthy(item, Tail(keys))

\* item.id || item[`${resourceType}Id`] || String(item._id || '')
EntityId(item, resourceType, found) ==
  IF ~found.null THEN [k |-> "id", t |-> found.v.t, v |-> found.v.v]
  ELSE IF ~FirstTruthy(item, <<"_id">>).null
       THEN StrArg("id", FirstTruthy(item, <<"_id">>).v.v)
       ELSE StrArg("id", "")

\* item.name || item[`${resourceType}Name`] || item.fileName || item.title || ''
EntityName(item, resourceType, found) ==
  IF ~found.null THEN [k |-> "name", t |-> found.v.t, v |-> found.v.v]
  ELSE StrArg("name", "")

IsOtherEntry(e) == e.k \notin {"id", "name", "_id"}

\* the callback of items.map: id and name first, then every other entry of
\* the item in its own order
Entity(item, resourceType) ==
  << EntityId(item, resourceType, FirstTruthy(item, <<"id", resourceType \o "Id">>)),
     EntityName(item, resourceType,
                FirstTruthy(item, <<"name", resourceType \o "Name", "fileName", "title">>)) >>
  \o SelectSeq(item, IsOtherEntry)

\* what readResource resolved with: "array" and "object" are contents[0].text
\* that parses to an array or to another value, "text" is text that does not
\* parse, "absent" is a result without contents (the text is then '[]')
ArrayPayload(items) == [kind |-> "array", items |-> items]

ObjectPayload(item) == [kind |-> "object", items |-> <<item>>]

TextPayload == [kind |-> "text", items |-> <<>>]

AbsentPayload == [kind |-> "absent", items |-> <<>>]

\* items.slice(0, 100).map(...): Null when the callback throws, which it does
\* on the item null
Entities(payload, resourceType) ==
  IF \E i \in 1..Min(Len(payload.items), maxEntities) : payload.items[i].null
  THEN Null
  ELSE Some([i \in 1..Min(Len(payload.items), maxEntities) |->
               Entity(payload.items[i].v, resourceType)])

\* the body of the loop after readResource resolved: the entities it stores
\* under resourceType, Null when it stores nothing
Stored(payload, resourceType) ==
  IF payload.kind = "text" THEN Null ELSE Entities(payload, resourceType)

(***************************************************************************)
(* Inputs                                                                  *)
(***************************************************************************)
MaxPlanLen == 2

SendDocumentTool ==
  ServerTool("send_document", "Send a stored document to the user", TRUE,
             <<Prop("query", "string")>>, <<"query">>)

ListProjectsTool ==
  ServerTool("list_projects", "List every active project record", FALSE, <<>>, <<>>)

GetDocumentTool ==
  ServerTool("get_document", "Fetch one stored document", TRUE,
             <<Prop("id", "string"), Prop("query", "string")>>, <<>>)

DeleteProjectTool ==
  ServerTool("delete_project", "Delete a project permanently", TRUE,
             <<Prop("projectId", "string")>>, <<"projectId">>)

\* tool lists the remote server may answer listTools with
Catalogs ==
  { <<SendDocumentTool, ListProjectsTool>>,
    <<GetDocumentTool, DeleteProjectTool>>,
    <<SendDocumentTool, GetDocumentTool, DeleteProjectTool, ListProjectsTool>> }

\* the tables a successful refresh() can leave, one per answer of listTools
RefreshedTables == { RefreshTable(cat, <<>>) : cat \in Catalogs }

\* user messages (text of the activity, already trimmed by bot.onMessage)
Messages ==
  { "send me the ecp checklist",
    "what's the capital of France",
    "send me the project deadline",
    "Show me project details",
    "find document query example id abc",
    "is the budget active" }

\* calls the model may put in a plan
OracleCalls ==
  { ModelCall("list_projects", "string", <<>>, "object"),
    ModelCall("delete_project", "string", <<StrArg("projectId", "p1")>>, "object"),
    ModelCall("delete_project", "string", <<>>, "object"),
    ModelCall("delete_project", "string", <<NumArg("projectId", "7")>>, "object"),
    ModelCall("no_such_tool", "string", <<>>, "object") }

SeqsUpTo(S, n) == UNION { [1..k -> S] : k \in 0..n }

\* response texts of the model: empty, not JSON, JSON whose calls is not an
\* array, and JSON plans
OracleResponses ==
  { [text |-> "", json |-> FALSE, callsIsArray |-> FALSE, calls |-> <<>>,
     needs_confirmation |-> FALSE, hasFallback |-> FALSE, fallback_text |-> ""],
    [text |-> "prose", json |-> FALSE, callsIsArray |-> FALSE, calls |-> <<>>,
     needs_confirmation |-> FALSE, hasFallback |-> FALSE, fallback_text |-> ""],
    [text |-> "json", json |-> TRUE, callsIsArray |-> FALSE, calls |-> <<>>,
     needs_confirmation |-> FALSE, hasFallback |-> FALSE, fallback_text |-> ""],
    [text |-> "json", json |-> TRUE, callsIsArray |-> TRUE, calls |-> <<>>,
     needs_confirmation |-> FALSE, hasFallback |-> TRUE,
     fallback_text |-> "Use /projects command to list all projects"] }
  \cup { [text |-> "json", json |-> TRUE, callsIsArray |-> TRUE, calls |-> c,
          needs_confirmation |-> nc, hasFallback |-> FALSE, fallback_text |-> ""] :
         c \in SeqsUpTo(OracleCalls, MaxPlanLen), nc \in BOOLEAN }

\* the calls of those answers: also calls without a tool, with a tool that
\* is not a string, and with args that are null, a string or an array
PlannerCalls ==
  OracleCalls
  \cup { ModelCall("", "undefined", <<>>, "object"),
         ModelCall("7", "number", <<>>, "object"),
         ModelCall("list_projects", "string", <<>>, "null"),
         ModelCall("list_projects", "string", <<>>, "string"),
         ModelCall("list_projects", "string", <<>>, "array") }

\* messages of the errors fetch rejects with
FetchErrors == { "fetch failed", "" }

\* the model's answers Planner.plan is studied with: the answers that are not
\* a plan, and plans of one call or of a valid call followed by any call
PlannerResponses ==
  { r \in OracleResponses : r.calls = <<>> }
  \cup { [text |-> "json", json |-> TRUE, callsIsArray |-> TRUE, calls |-> c,
          needs_confirmation |-> nc, hasFallback |-> FALSE, fallback_text |-> ""] :
         c \in { <<x>> : x \in PlannerCalls }
                 \cup { <<ModelCall("list_projects", "string", <<>>, "object"), x>> :
                          x \in PlannerCalls },
         nc \in BOOLEAN }

\* messages of the errors callTool rejects with
RemoteErrors == { "HTTP 500: internal error", "" }

\* message of the error a failing stream handler (sendActivity) rejects with
StreamErrors == { "activity send failed" }

(***************************************************************************)
(* State                                                                   *)
(***************************************************************************)
VARIABLES
  tools,            \* ToolCache.tools, in Map insertion order
  pc,               \* where the handling of the current activity stands
  message,          \* text of the activity being handled
  matches,          \* tryFastPath: the pooled candidates of the last route
  fastPathMatches,  \* tryFastPath's return value in the last route
  plan,             \* the Plan route() returned (or the card's plan)
  planSource,       \* "none", "fast" or "planner"
  plannerCalls,     \* Planner.plan invocations for the current message
  confirmed,        \* the running execute() follows a confirm click
  idx,              \* execute(): index of the call the loop is at
  result,           \* execute(): the ExecutionResult being built
  inFlight,         \* indices of calls whose callTool request is pending
  callLog,          \* callTool requests issued for the current message
  streamLog,        \* notifications delivered to the stream handler
  reply             \* what the handler sent back when it finished

\* one invocation of Planner.plan, step by step
VARIABLES
  apiKey,               \* Planner.llmApiKey
  entityStale,          \* now - lastEntityRefresh > entityRefreshInterval
  ppc,                  \* where Planner.plan stands
  toRead,               \* refreshEntityCatalog: discovered resources not read yet
  netLog,               \* network requests issued since plan() was called
  conversationHistory,  \* the conversationHistory argument of plan()
  llmRequest,           \* history lines of the prompt and roles of the messages sent
  response,             \* the response text callLLM returned
  outcome               \* how plan() settled

\* ConversationHistory and the caller of getHistory
VARIABLES
  now,            \* Date.now()
  maxMessages,    \* ConversationHistory.maxMessages
  maxAge,         \* ConversationHistory.maxAge
  conversations,  \* ConversationHistory.conversations: user -> stored array
  returned,       \* the array the last getHistory returned, as the caller holds it
  returnedAlias,  \* the user whose stored array that array is, "none" for a copy
  lastOp,         \* the last operation on the history
  lastRead,       \* what the last getHistory returned, and for whom
  prevRead        \* what the getHistory before it returned for the same user

\* ToolCache.refresh runs, one by one
VARIABLES
  pending,        \* refresh() runs that await listTools
  started,        \* refresh() calls so far
  listToolsLog,   \* listTools requests issued so far
  settledRun,     \* the refresh() run that settled last, and how
  observed,       \* what the last reader of the table got
  toolTimer       \* ToolCache.initialize() and the timer in ToolCache.refreshInterval

\* the ContextProvider, its refreshEntityCatalog runs and its callers
VARIABLES
  entityCache,          \* ContextProvider.entityCache: resource type -> entities
  discoveredResources,  \* ContextProvider.discoveredResources
  lastEntityRefresh,    \* ContextProvider.lastEntityRefresh
  refreshInterval,      \* ContextProvider.refreshInterval: "unset" or "armed"
  dateNow,              \* what the last call of Date.now() returned
  refreshRuns,          \* refreshEntityCatalog() runs that await a response, as a bag
  refreshStarted,       \* refreshEntityCatalog() calls so far
  listed,               \* how the last listResources request settled
  cacheObject,          \* which object entityCache refers to and whose work it holds
  obtained,             \* what the last getEntityCatalog/getUserContext returned
  runLog                \* how the reads of the last run settled, if it ran alone

\* the PlanExecutor and the requests that use it
VARIABLES
  onStream,    \* PlanExecutor.onStream: "none", or the request whose handler it is
  executions   \* request -> where its execute() stands and what it did

\* the McpHttpClient and the callers of init()
VARIABLES
  sid,          \* McpHttpClient.sid
  initialized,  \* McpHttpClient.initialized
  inits         \* caller -> where its init() stands, the header of its notification, its value

\* Router and PlanExecutor functions applied to inputs
VARIABLES
  applied   \* the last application: the function, its inputs and what it returned

botVars == <<tools, pc, message, matches, fastPathMatches, plan, planSource,
             plannerCalls, confirmed, idx, result, inFlight, callLog, streamLog, reply>>

plannerVars == <<apiKey, entityStale, ppc, toRead, netLog, conversationHistory,
                 llmRequest, response, outcome>>

\* the state of the components the message handler's actions leave alone
historyVars == <<now, maxMessages, maxAge, conversations, returned, returnedAlias,
                 lastOp, lastRead, prevRead>>

catalogVars == <<pending, started, listToolsLog, settledRun, observed, toolTimer>>

entityVars == <<entityCache, discoveredResources, lastEntityRefresh, refreshInterval, dateNow,
                refreshRuns, refreshStarted, listed, cacheObject, obtained, runLog>>

executorVars == <<onStream, executions>>

sessionVars == <<sid, initialized, inits>>

routerVars == <<applied>>

componentVars ==
  <<plannerVars, historyVars, catalogVars, entityVars, executorVars, sessionVars, routerVars>>

vars == <<botVars, componentVars>>

NoPlan ==
  [calls |-> <<>>, needs_confirmation |-> FALSE, hasFallback |-> FALSE, fallback_text |-> ""]

\* no invocation of Planner.plan under way
NoRequest == [prompt |-> <<>>, messages |-> <<>>]

NoResponse ==
  [text |-> "none", json |-> FALSE, callsIsArray |-> FALSE, calls |-> <<>>,
   needs_confirmation |-> FALSE, hasFallback |-> FALSE, fallback_text |-> ""]

NoOutcome == [kind |-> "none", plan |-> NoPlan, error |-> ""]

\* the message handler between two activities
BotAtRest ==
  /\ pc = "idle"
  /\ message = ""
  /\ matches = <<>>
  /\ fastPathMatches = <<>>
  /\ plan = NoPlan
  /\ planSource = "none"
  /\ plannerCalls = 0
  /\ confirmed = FALSE
  /\ idx = 0
  /\ result = NewResult(NoPlan)
  /\ inFlight = {}
  /\ callLog = <<>>
  /\ streamLog = <<>>
  /\ reply = "none"

PlannerAtRest ==
  /\ ppc = "idle"
  /\ toRead = 0
  /\ netLog = <<>>
  /\ conversationHistory = <<>>
  /\ llmRequest = NoRequest
  /\ response = NoResponse
  /\ outcome = NoOutcome

\* after startup: toolCache.initialize() and contextProvider.initialize()
\* have completed and the model credential is configured
Users == {"u1"}

\* new ConversationHistory(...) with the defaults of the environment
defaultMaxMessages == 20

defaultMaxAge == 86400000

NoOp == [op |-> "none", user |-> ""]

\* a ConversationHistory nobody has used yet
HistoryEmpty ==
  /\ now = 0
  /\ conversations = [u \in Users |-> Null]
  /\ returned = <<>>
  /\ returnedAlias = "none"
  /\ lastOp = NoOp
  /\ lastRead = Null
  /\ prevRead = Null

HistoryAtRest ==
  /\ maxMessages = defaultMaxMessages
  /\ maxAge = defaultMaxAge
  /\ HistoryEmpty

NoRun == [id |-> 0, origin |-> "none", kind |-> "none", toolList |-> <<>>, error |-> ""]

\* no refresh() has been called and nobody has read the table
CatalogAtRest ==
  /\ pending = {}
  /\ started = 0
  /\ listToolsLog = 0
  /\ settledRun = NoRun
  /\ observed = Null
  /\ toolTimer = "unset"

\* Date.now() when the process starts: any instant of this century is more
\* than entityRefreshInterval after the instant 0 lastEntityRefresh starts at
processStart == entityRefreshInterval + 1

EmptyCatalog == << >>

NoObtained == [fn |-> "none", stale |-> FALSE, work |-> "none"]

NotListed == [kind |-> "none", resources |-> <<>>]

\* the object the constructor assigns: number 0, which no run has filled
InitialObject == [made |-> 0, work |-> "initial"]

\* no run has started
NoRunLog == [alone |-> FALSE, reads |-> {}]

\* a ContextProvider nobody has initialized or called
EntityAtRest ==
  /\ entityCache = EmptyCatalog
  /\ discoveredResources = <<>>
  /\ lastEntityRefresh = 0
  /\ refreshInterval = "unset"
  /\ dateNow = processStart
  /\ refreshRuns = EmptyBag
  /\ refreshStarted = 0
  /\ listed = NotListed
  /\ cacheObject = InitialObject
  /\ obtained = NoObtained
  /\ runLog = NoRunLog

\* the requests that share the one PlanExecutor of the process
Requests == {"A", "B"}

\* a request that has not arrived
IdleExecution ==
  [pc |-> "idle", registers |-> FALSE, plan |-> NoPlan, idx |-> 0,
   result |-> NewResult(NoPlan), via |-> "none", trace |-> <<>>]

\* a PlanExecutor after construction: no handler, nothing executing
ExecutorAtRest ==
  /\ onStream = "none"
  /\ executions = [r \in Requests |-> IdleExecution]

\* the callers of McpHttpClient.init: the startup code and message handlers
Callers == {"c1", "c2"}

\* a caller that has no init() under way
IdleInit == [pc |-> "idle", header |-> Null, value |-> Null]

\* a McpHttpClient after construction
SessionAtRest ==
  /\ sid = Null
  /\ initialized = FALSE
  /\ inits = [c \in Callers |-> IdleInit]

\* no function of the Router has been applied
NotApplied == [fn |-> "none"]

RouterAtRest == applied = NotApplied

Init ==
  /\ tools \in RefreshedTables
  /\ BotAtRest
  /\ apiKey = "sk-test"
  /\ entityStale = FALSE
  /\ PlannerAtRest
  /\ HistoryAtRest
  /\ CatalogAtRest
  /\ EntityAtRest
  /\ ExecutorAtRest
  /\ SessionAtRest
  /\ RouterAtRest

(***************************************************************************)
(* Actions                                                                 *)
(***************************************************************************)
\* executePlan -> executor.execute(plan), up to its first suspension point:
\* either execute returns at once (needs_confirmation, or no calls) and
\* executePlan reports, or the loop awaits the first 'Executing' notification
BeginExecute(p) ==
  /\ result' = NewResult(p)
  /\ IF EntersLoop(p) /\ Len(p.calls) > 0
     THEN idx' = 1 /\ pc' = "stream_start" /\ reply' = reply
     ELSE idx' = 0 /\ pc' = "done" /\ reply' = "no_output"

\* a variant of NextCall that leaves the loop at the first recorded error
NextCall_AbortOnError(res) ==
  /\ result' = res
  /\ IF idx < Len(plan.calls) /\ res.success
     THEN idx' = idx + 1 /\ pc' = "stream_start" /\ reply' = reply
     ELSE /\ idx' = idx
          /\ pc' = "done"
          /\ reply' = IF ~res.success /\ Len(res.errors) > 0 THEN "errors"
                      ELSE IF Len(res.results) = 0 THEN "no_output"
                      ELSE "results"

\* end of one loop iteration with ExecutionResult res: the next iteration
\* awaits its 'Executing' notification, or execute returns and executePlan
\* reports the errors or the results
NextCall(res) ==
  /\ result' = res
  /\ IF idx < Len(plan.calls)
     THEN idx' = idx + 1 /\ pc' = "stream_start" /\ reply' = reply
     ELSE /\ idx' = idx
          /\ pc' = "done"
          /\ reply' = IF ~res.success /\ Len(res.errors) > 0 THEN "errors"
                      ELSE IF Len(res.results) = 0 THEN "no_output"
                      ELSE "results"

\* handleNaturalLanguage after route() resolved with plan p
HandlePlan(p) ==
  IF p.hasFallback
  THEN /\ pc' = "done" /\ reply' = "fallback"
       /\ UNCHANGED <<idx, result>>
  ELSE IF p.needs_confirmation
  THEN /\ pc' = "card" /\ reply' = "card"
       /\ UNCHANGED <<idx, result>>
  ELSE BeginExecute(p)

\* bot.onMessage for a natural-language activity, up to `await toolCache.refresh()`
ReceiveMessage ==
  /\ pc = "idle"
  /\ \E m \in Messages : message' = m
  /\ pc' = "refresh"
  /\ matches' = <<>>
  /\ fastPathMatches' = <<>>
  /\ plan' = NoPlan
  /\ planSource' = "none"
  /\ plannerCalls' = 0
  /\ confirmed' = FALSE
  /\ idx' = 0
  /\ result' = NewResult(NoPlan)
  /\ callLog' = <<>>
  /\ streamLog' = <<>>
  /\ reply' = "none"
  /\ UNCHANGED <<tools, inFlight>>
  /\ UNCHANGED componentVars

\* toolCache.refresh() of bot.onMessage: listTools answered, table rebuilt
RefreshDone ==
  /\ pc = "refresh"
  /\ tools' \in RefreshedTables
  /\ pc' = "route"
  /\ UNCHANGED <<message, matches, fastPathMatches, plan, planSource, plannerCalls,
                 confirmed, idx, result, inFlight, callLog, streamLog, reply>>
  /\ UNCHANGED componentVars

\* toolCache.refresh() of bot.onMessage rejects: the handler rejects before
\* handleNaturalLanguage is called; the table is left alone
RefreshFail ==
  /\ pc = "refresh"
  /\ pc' = "done"
  /\ reply' = "rejected"
  /\ UNCHANGED <<tools, message, matches, fastPathMatches, plan, planSource, plannerCalls,
                 confirmed, idx, result, inFlight, callLog, streamLog>>
  /\ UNCHANGED componentVars

\* ToolCache's setInterval tick (or another activity's refresh) completes
\* while this activity is suspended
BackgroundRefresh ==
  /\ pc \in {"llm", "stream_start", "call", "stream_done", "card"}
  /\ tools' \in RefreshedTables
  /\ tools' # tools
  /\ UNCHANGED <<pc, message, matches, fastPathMatches, plan, planSource, plannerCalls,
                 confirmed, idx, result, inFlight, callLog, streamLog, reply>>
  /\ UNCHANGED componentVars

\* Router.route (and handleNaturalLanguage after it) where tryFastPath
\* pooled `pool` and returned `found`: with candidates the plan is built and
\* handled without a model invocation, with none planner.plan is awaited
RouteWith(pool, found) ==
  /\ matches' = pool
  /\ fastPathMatches' = found
  /\ IF Len(found) > 0
     THEN /\ plan' = FastPathPlan(found)
          /\ planSource' = "fast"
          /\ HandlePlan(plan')
          /\ UNCHANGED plannerCalls
     ELSE /\ plannerCalls' = plannerCalls + 1
          /\ pc' = "llm"
          /\ UNCHANGED <<plan, planSource, idx, result, reply>>

Route ==
  /\ pc = "route"
  /\ RouteWith(EmitCandidates(message, tools), tryFastPath(message, tools))
  /\ UNCHANGED <<tools, message, confirmed, inFlight, callLog, streamLog>>
  /\ UNCHANGED componentVars

\* the model answers; Planner.plan parses and validates, route resolves
LLMRespond ==
  /\ pc = "llm"
  /\ \E resp \in OracleResponses : plan' = PlannerPlan(resp, tools)
  /\ planSource' = "planner"
  /\ HandlePlan(plan')
  /\ UNCHANGED <<tools, message, matches, fastPathMatches, plannerCalls, confirmed,
                 inFlight, callLog, streamLog>>
  /\ UNCHANGED componentVars

\* callLLM throws (network failure or API error): plan and route reject and
\* bot.onMessage's catch reports the error
LLMFail ==
  /\ pc = "llm"
  /\ pc' = "done"
  /\ reply' = "error"
  /\ UNCHANGED <<tools, message, matches, fastPathMatches, plan, planSource, plannerCalls,
                 confirmed, idx, result, inFlight, callLog, streamLog>>
  /\ UNCHANGED componentVars

\* the user clicks Confirm: handleConfirmation parses the card's plan and
\* calls executePlan with it
Confirm ==
  /\ pc = "card"
  /\ confirmed' = TRUE
  /\ BeginExecute(plan)
  /\ UNCHANGED <<tools, message, matches, fastPathMatches, plan, planSource, plannerCalls,
                 inFlight, callLog, streamLog>>
  /\ UNCHANGED componentVars

\* the user clicks Cancel
Cancel ==
  /\ pc = "card"
  /\ pc' = "done"
  /\ reply' = "cancelled"
  /\ UNCHANGED <<tools, message, matches, fastPathMatches, plan, planSource, plannerCalls,
                 confirmed, idx, result, inFlight, callLog, streamLog>>
  /\ UNCHANGED componentVars

\* the ToolCatalog safety flag of a tool of the table
IsDestructive(table, name) ==
  \E i \in 1..Len(table) : table[i].name = name /\ table[i].safety.destructive

\* a variant of StreamStartOk that does not await callTool before the loop
\* goes on to the next call
StreamStartOk_NoAwait ==
  /\ pc = "stream_start"
  /\ streamLog' = Append(streamLog, <<"start", idx>>)
  /\ inFlight' = inFlight \cup {idx}
  /\ callLog' = Append(callLog, [tool |-> plan.calls[idx].tool, args |-> plan.calls[idx].args,
                                 index |-> idx, pending |-> inFlight,
                                 destructive |-> IsDestructive(tools, plan.calls[idx].tool),
                                 confirmed |-> confirmed])
  /\ NextCall(result)
  /\ UNCHANGED <<tools, message, matches, fastPathMatches, plan, planSource, plannerCalls,
                 confirmed>>
  /\ UNCHANGED componentVars

\* the 'Executing ...' notification was delivered: validateCall runs, and a
\* valid call's callTool request is issued
StreamStartOk ==
  /\ pc = "stream_start"
  /\ streamLog' = Append(streamLog, <<"start", idx>>)
  /\ LET call == plan.calls[idx]
         validationError == validateCall(call, tools)
     IN IF ~validationError.null
        THEN /\ NextCall(PushError(result, call, idx, validationError.v))
             /\ UNCHANGED <<inFlight, callLog>>
        ELSE /\ inFlight' = inFlight \cup {idx}
             /\ callLog' = Append(callLog, [tool |-> call.tool, args |-> call.args,
                                            index |-> idx, pending |-> inFlight,
                                            destructive |-> IsDestructive(tools, call.tool),
                                            confirmed |-> confirmed])
             /\ pc' = "call"
             /\ UNCHANGED <<idx, result, reply>>
  /\ UNCHANGED <<tools, message, matches, fastPathMatches, plan, planSource, plannerCalls,
                 confirmed>>
  /\ UNCHANGED componentVars

\* the stream handler rejects on the 'Executing ...' notification: the
\* catch block records the error and the loop goes on
StreamStartFail ==
  /\ pc = "stream_start"
  /\ \E e \in StreamErrors : NextCall(PushError(result, plan.calls[idx], idx, ErrorText(e)))
  /\ UNCHANGED <<tools, message, matches, fastPathMatches, plan, planSource, plannerCalls,
                 confirmed, inFlight, callLog, streamLog>>
  /\ UNCHANGED componentVars

\* callTool resolves: the result is appended and 'Completed' is streamed
CallOk ==
  /\ pc = "call"
  /\ inFlight' = inFlight \ {idx}
  /\ result' = PushResult(result, idx, "ok")
  /\ pc' = "stream_done"
  /\ UNCHANGED <<tools, message, matches, fastPathMatches, plan, planSource, plannerCalls,
                 confirmed, idx, callLog, streamLog, reply>>
  /\ UNCHANGED componentVars

\* callTool rejects: executeCall wraps the error, the catch block records it
CallFail ==
  /\ pc = "call"
  /\ inFlight' = inFlight \ {idx}
  /\ \E e \in RemoteErrors :
        NextCall(PushError(result, plan.calls[idx], idx, executeCallError(plan.calls[idx], e)))
  /\ UNCHANGED <<tools, message, matches, fastPathMatches, plan, planSource, plannerCalls,
                 confirmed, callLog, streamLog>>
  /\ UNCHANGED componentVars

\* the 'Completed' notification was delivered
StreamDoneOk ==
  /\ pc = "stream_done"
  /\ streamLog' = Append(streamLog, <<"done", idx>>)
  /\ NextCall(result)
  /\ UNCHANGED <<tools, message, matches, fastPathMatches, plan, planSource, plannerCalls,
                 confirmed, inFlight, callLog>>
  /\ UNCHANGED componentVars

\* the stream handler rejects on the 'Completed' notification
StreamDoneFail ==
  /\ pc = "stream_done"
  /\ \E e \in StreamErrors : NextCall(PushError(result, plan.calls[idx], idx, ErrorText(e)))
  /\ UNCHANGED <<tools, message, matches, fastPathMatches, plan, planSource, plannerCalls,
                 confirmed, inFlight, callLog, streamLog>>
  /\ UNCHANGED componentVars

\* the handler has returned; the bot waits for the next activity
Finish ==
  /\ pc = "done"
  /\ pc' = "idle"
  /\ UNCHANGED <<tools, message, matches, fastPathMatches, plan, planSource, plannerCalls,
                 confirmed, idx, result, inFlight, callLog, streamLog, reply>>
  /\ UNCHANGED componentVars

Next ==
  \/ ReceiveMessage
  \/ RefreshDone
  \/ RefreshFail
  \/ BackgroundRefresh
  \/ Route
  \/ LLMRespond
  \/ LLMFail
  \/ Confirm
  \/ Cancel
  \/ StreamStartOk
  \/ StreamStartFail
  \/ CallOk
  \/ CallFail
  \/ StreamDoneOk
  \/ StreamDoneFail
  \/ Finish

Spec == Init /\ [][Next]_vars

(***************************************************************************)
(* Planner.plan step by step (src/dist/planner.js) with the staleness      *)
(* check of ContextProvider (src/unnamed/part_001)                         *)
(***************************************************************************)
MaxHistoryLen == 11

MaxResources == 2

\* conversationHistory.slice(-10)
historyWindow == 10

\* number of the fallback resources of discoverResources
defaultResources == 3

\* llmApiKey: unset, blank, set
ApiKeys == {"", "  ", "sk-test"}

Roles == <<"user", "assistant">>

\* a history of n turns with alternating roles, oldest first; the content
\* of a turn is its position
TurnsFrom(n, first) ==
  [i \in 1..n |-> [role |-> Roles[((i + first + 1) % 2) + 1], content |-> i]]

\* the conversationHistory arguments plan() is called with
Histories == { TurnsFrom(n, 0) : n \in 0..MaxHistoryLen }

\* Array.prototype.slice(-n): the last n elements, everything when n is 0
\* or the array is shorter
SliceLast(seq, n) ==
  IF n = 0 \/ Len(seq) <= n THEN seq ELSE SubSeq(seq, Len(seq) - n + 1, Len(seq))

\* buildPlannerPrompt: the role-prefixed history lines of the prompt
historySection(history) ==
  [i \in 1..Len(history) |->
     [prefix |-> IF history[i].role = "user" THEN "User" ELSE "Assistant",
      content |-> history[i].content]]

\* callLLM: the role-tagged messages built from the history
recentHistory(history) ==
  [i \in 1..Len(SliceLast(history, historyWindow)) |->
     [role |-> IF SliceLast(history, historyWindow)[i].role = "user"
               THEN "user" ELSE "assistant",
      content |-> SliceLast(history, historyWindow)[i].content]]

LlmUrl == "https://api.openai.com/v1/chat/completions"

ConfigError ==
  "LLM API key not configured. Set OPENAI_API_KEY environment variable.\n"
    \o "Make sure your .env file is loaded and contains: OPENAI_API_KEY=your-key-here"

\* the Error callLLM throws when fetch rejects with message msg
NetworkError(msg) ==
  "Failed to connect to LLM API at " \o LlmUrl \o ". "
    \o "This could be due to network issues, DNS resolution failure, or the API server being unreachable. "
    \o "Error: " \o ErrorText(msg) \o ". "
    \o "Please check your OPENAI_BASE_URL environment variable (currently: https://api.openai.com/v1) and ensure the service is accessible."

\* the Error callLLM throws for a response that is not ok
HttpError(status, text) == "LLM API error: " \o status \o " " \o text

Rejected(msg) == [kind |-> "rejected", plan |-> NoPlan, error |-> msg]

Resolved(p) == [kind |-> "plan", plan |-> p, error |-> ""]

\* everything the steps of Planner.plan leave alone
plannerFrame == <<botVars, historyVars, catalogVars, entityVars, executorVars, sessionVars, routerVars>>

\* callLLM up to its first await: the credential check, then the request
EnterCallLLM ==
  IF Trim(apiKey) = ""
  THEN /\ outcome' = Rejected(ConfigError)
       /\ ppc' = "done"
       /\ UNCHANGED <<netLog, llmRequest>>
  ELSE /\ netLog' = Append(netLog, "chat/completions")
       /\ llmRequest' = [prompt |-> historySection(conversationHistory),
                         messages |-> recentHistory(conversationHistory)]
       /\ ppc' = "fetch"
       /\ UNCHANGED outcome

\* refreshEntityCatalog has run to its end: lastEntityRefresh = Date.now()
FinishRefresh ==
  /\ entityStale' = FALSE
  /\ toRead' = 0
  /\ IF ppc \in {"userContext_list", "userContext_read"}
     THEN ppc' = "entityCatalog" /\ UNCHANGED <<netLog, llmRequest, outcome>>
     ELSE EnterCallLLM

\* refreshEntityCatalog after discoverResources left n resources
StartReads(n) ==
  IF n = 0 THEN FinishRefresh
  ELSE /\ toRead' = n
       /\ netLog' = Append(netLog, "resources/read")
       /\ ppc' = IF ppc = "userContext_list" THEN "userContext_read" ELSE "entityCatalog_read"
       /\ UNCHANGED <<entityStale, llmRequest, outcome>>

\* plan() is called: getUserContext runs up to its first await
PlanStart ==
  /\ ppc = "idle"
  /\ \E h \in Histories : conversationHistory' = h
  /\ llmRequest' = NoRequest
  /\ response' = NoResponse
  /\ outcome' = NoOutcome
  /\ toRead' = 0
  /\ IF entityStale
     THEN netLog' = <<"resources/list">> /\ ppc' = "userContext_list"
     ELSE netLog' = <<>> /\ ppc' = "entityCatalog"
  /\ UNCHANGED <<apiKey, entityStale, plannerFrame>>

\* getUserContext has returned: getEntityCatalog checks the staleness again,
\* and with a fresh catalog plan() goes on to callLLM
EnterEntityCatalog ==
  /\ ppc = "entityCatalog"
  /\ IF entityStale
     THEN /\ netLog' = Append(netLog, "resources/list")
          /\ ppc' = "entityCatalog_list"
          /\ UNCHANGED <<llmRequest, outcome>>
     ELSE EnterCallLLM
  /\ UNCHANGED <<apiKey, entityStale, toRead, conversationHistory, response, plannerFrame>>

\* listResources resolves with n resources that pass the filter
DiscoverOk ==
  /\ ppc \in {"userContext_list", "entityCatalog_list"}
  /\ \E n \in 0..MaxResources : StartReads(n)
  /\ UNCHANGED <<apiKey, conversationHistory, response, plannerFrame>>

\* listResources rejects: discoverResources falls back to the known resources
DiscoverFail ==
  /\ ppc \in {"userContext_list", "entityCatalog_list"}
  /\ StartReads(defaultResources)
  /\ UNCHANGED <<apiKey, conversationHistory, response, plannerFrame>>

\* readResource resolves or rejects (a rejection is caught and logged): the
\* loop reads the next resource or the refresh ends
ReadSettled ==
  /\ ppc \in {"userContext_read", "entityCatalog_read"}
  /\ IF toRead > 1
     THEN /\ toRead' = toRead - 1
          /\ netLog' = Append(netLog, "resources/read")
          /\ UNCHANGED <<entityStale, ppc, llmRequest, outcome>>
     ELSE FinishRefresh
  /\ UNCHANGED <<apiKey, conversationHistory, response, plannerFrame>>

\* time passes: the entity catalog becomes older than its refresh interval
EntityExpire ==
  /\ ~entityStale
  /\ entityStale' = TRUE
  /\ UNCHANGED <<apiKey, ppc, toRead, netLog, conversationHistory, llmRequest,
                 response, outcome, plannerFrame>>

\* the model answers with a 2xx response: plan() parses and validates it
FetchOk ==
  /\ ppc = "fetch"
  /\ \E resp \in PlannerResponses :
        /\ response' = resp
        /\ outcome' = Resolved(PlannerPlan(resp, tools))
  /\ ppc' = "done"
  /\ UNCHANGED <<apiKey, entityStale, toRead, netLog, conversationHistory, llmRequest,
                 plannerFrame>>

\* a variant of FetchNetworkFail that asks the model once more
FetchNetworkFail_Retry ==
  /\ ppc = "fetch"
  /\ Len(netLog) < 8
  /\ netLog' = Append(netLog, "chat/completions")
  /\ UNCHANGED <<apiKey, entityStale, ppc, toRead, conversationHistory, llmRequest,
                 response, outcome, plannerFrame>>

\* fetch rejects (DNS, connection refused, timeout): callLLM wraps and throws
FetchNetworkFail ==
  /\ ppc = "fetch"
  /\ \E e \in FetchErrors : outcome' = Rejected(NetworkError(e))
  /\ ppc' = "done"
  /\ UNCHANGED <<apiKey, entityStale, toRead, netLog, conversationHistory, llmRequest,
                 response, plannerFrame>>

\* the endpoint answers with a status that is not ok
FetchHttpError ==
  /\ ppc = "fetch"
  /\ outcome' = Rejected(HttpError("500", "internal error"))
  /\ ppc' = "done"
  /\ UNCHANGED <<apiKey, entityStale, toRead, netLog, conversationHistory, llmRequest,
                 response, plannerFrame>>

\* the caller has taken plan()'s result: the locals of the call are gone
PlanReturn ==
  /\ ppc = "done"
  /\ ppc' = "idle"
  /\ toRead' = 0
  /\ netLog' = <<>>
  /\ conversationHistory' = <<>>
  /\ llmRequest' = NoRequest
  /\ response' = NoResponse
  /\ outcome' = NoOutcome
  /\ UNCHANGED <<apiKey, entityStale, plannerFrame>>

\* a Planner constructed with any credential, before or after the entity
\* catalog was first loaded
PlannerInit ==
  /\ tools \in RefreshedTables
  /\ BotAtRest
  /\ apiKey \in ApiKeys
  /\ entityStale \in BOOLEAN
  /\ PlannerAtRest
  /\ HistoryAtRest
  /\ CatalogAtRest
  /\ EntityAtRest
  /\ ExecutorAtRest
  /\ SessionAtRest
  /\ RouterAtRest

PlannerNext ==
  \/ PlanStart
  \/ EnterEntityCatalog
  \/ DiscoverOk
  \/ DiscoverFail
  \/ ReadSettled
  \/ EntityExpire
  \/ FetchOk
  \/ FetchNetworkFail
  \/ FetchHttpError
  \/ PlanReturn

PlannerSpec == PlannerInit /\ [][PlannerNext]_vars

(***************************************************************************)
(* ConversationHistory (src/src/conversationHistory.ts)                    *)
(***************************************************************************)
MaxClock == 2

MaxMessages == 2

MaxAge == 1

\* addMessage is studied on stored arrays shorter than this
MaxStoredLen == MaxMessages + 1

\* everything the operations of ConversationHistory leave alone
historyFrame == <<botVars, plannerVars, catalogVars, entityVars, executorVars, sessionVars, routerVars>>

Message(role, content, timestamp) ==
  [role |-> role, content |-> content, timestamp |-> timestamp]

\* this.conversations.get(userId) || []
StoredOf(u) == IF conversations[u].null THEN <<>> ELSE conversations[u].v

\* a variant of cleanup that drops expired entries only
cleanup_AgeOnly(messages, t) ==
  SelectSeq(messages, LAMBDA msg : msg.timestamp > t - maxAge)

\* cleanup: the array it stores for messages when Date.now() is t
cleanup(messages, t) ==
  IF Len(SelectSeq(messages, LAMBDA msg : msg.timestamp > t - maxAge)) > maxMessages
  THEN SliceLast(SelectSeq(messages, LAMBDA msg : msg.timestamp > t - maxAge), maxMessages)
  ELSE SelectSeq(messages, LAMBDA msg : msg.timestamp > t - maxAge)

\* messages.push(...) changes the stored array in place: a caller that holds
\* that very array sees the push, and keeps the array when cleanup stores a
\* new one
PushSeen(u, pushed) ==
  IF returnedAlias = u
  THEN returned' = pushed /\ returnedAlias' = "none"
  ELSE UNCHANGED <<returned, returnedAlias>>

\* addMessage(u, role, content); the clock may move by d between the
\* Date.now() of the push and the Date.now() of cleanup
AddMessage(u, role, d) ==
  /\ now + d <= MaxClock
  /\ Len(StoredOf(u)) < MaxStoredLen
  /\ conversations' =
       [conversations EXCEPT
          ![u] = Some(cleanup(Append(StoredOf(u), Message(role, "hi", now)), now + d))]
  /\ PushSeen(u, Append(StoredOf(u), Message(role, "hi", now)))
  /\ now' = now + d
  /\ lastOp' = [op |-> "addMessage", user |-> u]
  /\ lastRead' = Null
  /\ prevRead' = Null
  /\ UNCHANGED <<maxMessages, maxAge, historyFrame>>

\* what a getHistory(u) leaves in the ghost variables
ReadNoted(u, content) ==
  /\ prevRead' = IF ~lastRead.null /\ lastRead.v.user = u
                 THEN Some(lastRead.v.content) ELSE Null
  /\ lastRead' = Some([user |-> u, content |-> content])
  /\ lastOp' = [op |-> "getHistory", user |-> u]

\* a variant of getHistory that returns the stored array itself
GetHistory_StoredArray(u) ==
  /\ conversations' =
       IF conversations[u].null THEN conversations
       ELSE [conversations EXCEPT ![u] = Some(cleanup(StoredOf(u), now))]
  /\ returned' = IF conversations[u].null THEN <<>> ELSE cleanup(StoredOf(u), now)
  /\ returnedAlias' = IF conversations[u].null THEN "none" ELSE u
  /\ ReadNoted(u, IF conversations[u].null THEN <<>> ELSE cleanup(StoredOf(u), now))
  /\ UNCHANGED <<now, maxMessages, maxAge, historyFrame>>

\* getHistory(u): messages is read before cleanup replaces the stored array,
\* and the copy is taken from messages
GetHistory(u) ==
  /\ conversations' =
       IF conversations[u].null THEN conversations
       ELSE [conversations EXCEPT ![u] = Some(cleanup(StoredOf(u), now))]
  /\ returned' = StoredOf(u)
  /\ returnedAlias' = "none"
  /\ ReadNoted(u, StoredOf(u))
  /\ UNCHANGED <<now, maxMessages, maxAge, historyFrame>>

\* clearHistory(u)
ClearHistory(u) ==
  /\ ~conversations[u].null
  /\ conversations' = [conversations EXCEPT ![u] = Null]
  /\ returnedAlias' = IF returnedAlias = u THEN "none" ELSE returnedAlias
  /\ lastOp' = [op |-> "clearHistory", user |-> u]
  /\ lastRead' = Null
  /\ prevRead' = Null
  /\ UNCHANGED <<now, maxMessages, maxAge, returned, historyFrame>>

Reverse(seq) == [i \in 1..Len(seq) |-> seq[Len(seq) + 1 - i]]

\* what the caller can make of the list it was returned: append an element,
\* remove the first, reorder
Mutations(list) ==
  { Append(list, Message("user", "added by the caller", now)) }
  \cup (IF list = <<>> THEN {} ELSE { Tail(list) })
  \cup (IF Len(list) < 2 THEN {} ELSE { Reverse(list) })

\* the caller of getHistory mutates the array it was returned
MutateReturned ==
  /\ lastOp.op = "getHistory"
  /\ \E list \in Mutations(returned) :
        /\ list # returned
        /\ returned' = list
        /\ conversations' =
             IF returnedAlias \in Users
             THEN [conversations EXCEPT ![returnedAlias] = Some(list)]
             ELSE conversations
  /\ lastOp' = [op |-> "mutate", user |-> lastOp.user]
  /\ UNCHANGED <<now, maxMessages, maxAge, returnedAlias, lastRead, prevRead, historyFrame>>

\* time passes
Tick ==
  /\ now < MaxClock
  /\ now' = now + 1
  /\ lastOp' = [op |-> "tick", user |-> ""]
  /\ UNCHANGED <<maxMessages, maxAge, conversations, returned, returnedAlias,
                 lastRead, prevRead, historyFrame>>

\* a ConversationHistory constructed with small limits
HistoryInit ==
  /\ tools = <<>>
  /\ BotAtRest
  /\ apiKey = "sk-test"
  /\ entityStale = FALSE
  /\ PlannerAtRest
  /\ maxMessages \in 0..MaxMessages
  /\ maxAge \in 0..MaxAge
  /\ HistoryEmpty
  /\ CatalogAtRest
  /\ EntityAtRest
  /\ ExecutorAtRest
  /\ SessionAtRest
  /\ RouterAtRest

HistoryNext ==
  \/ \E u \in Users, role \in Range(Roles), d \in 0..1 : AddMessage(u, role, d)
  \/ \E u \in Users : GetHistory(u)
  \/ \E u \in Users : ClearHistory(u)
  \/ MutateReturned
  \/ Tick

HistorySpec == HistoryInit /\ [][HistoryNext]_vars

(***************************************************************************)
(* ToolCache.refresh run by run (src/src/toolCache.ts)                     *)
(***************************************************************************)
MaxRuns == 3

\* everything the steps of ToolCache.refresh leave alone
catalogFrame ==
  <<pc, message, matches, fastPathMatches, plan, planSource, plannerCalls, confirmed, idx,
    result, inFlight, callLog, streamLog, reply, plannerVars, historyVars, entityVars,
    executorVars, sessionVars, routerVars>>

UpdateProjectTool ==
  ServerTool("update_project", "Rename a project", TRUE,
             <<Prop("projectId", "string"), Prop("title", "string")>>, <<"projectId">>)

ArchiveProjectTool ==
  ServerTool("archive_project", "REMOVE a project from the active list", TRUE,
             <<Prop("projectId", "string")>>, <<"projectId">>)

\* the tool lists the server answers listTools with, each tool with a name
\* and a schema as the protocol requires; result?.tools || [] makes an answer
\* without tools the empty list
ToolLists ==
  Catalogs \cup { <<>>, <<UpdateProjectTool, ArchiveProjectTool, ListProjectsTool>> }

\* the table refresh() builds from each list: clear(), then one set() per tool
TableOf == [toolList \in ToolLists |-> RefreshTable(toolList, <<>>)]

\* messages of the errors listTools rejects with
ListToolsErrors == RemoteErrors

\* who can call refresh() now: bot.onMessage at any time, initialize() once,
\* the interval callback once initialize() has set the timer
Origins ==
  {"message"} \cup (IF toolTimer = "unset" THEN {"initialize"} ELSE {})
              \cup (IF toolTimer = "armed" THEN {"timer"} ELSE {})

\* initialize() awaits the refresh() it has just called
TimerAfterCall(origin) == IF origin = "initialize" THEN "awaiting" ELSE toolTimer

\* a variant of RefreshCall that clears the table before it awaits listTools
RefreshCall_ClearFirst ==
  /\ started < MaxRuns
  /\ \E origin \in Origins :
        /\ pending' = pending \cup { [id |-> started + 1, origin |-> origin] }
        /\ toolTimer' = TimerAfterCall(origin)
  /\ started' = started + 1
  /\ listToolsLog' = listToolsLog + 1
  /\ tools' = <<>>
  /\ UNCHANGED <<settledRun, observed, catalogFrame>>

\* refresh() is called, by initialize(), by the interval callback or by
\* bot.onMessage, and runs up to its await of listTools
RefreshCall ==
  /\ started < MaxRuns
  /\ \E origin \in Origins :
        /\ pending' = pending \cup { [id |-> started + 1, origin |-> origin] }
        /\ toolTimer' = TimerAfterCall(origin)
  /\ started' = started + 1
  /\ listToolsLog' = listToolsLog + 1
  /\ UNCHANGED <<tools, settledRun, observed, catalogFrame>>

\* listTools resolves for one run: the run clears and refills the table
\* without a suspension point and resolves; initialize(), when it is the one
\* that awaits the run, goes on to setInterval
ListToolsOk ==
  /\ \E run \in pending, toolList \in ToolLists :
        /\ pending' = pending \ {run}
        /\ tools' = TableOf[toolList]
        /\ settledRun' = [id |-> run.id, origin |-> run.origin, kind |-> "resolved",
                          toolList |-> toolList, error |-> ""]
        /\ toolTimer' = IF run.origin = "initialize" THEN "armed" ELSE toolTimer
  /\ UNCHANGED <<started, listToolsLog, observed, catalogFrame>>

\* a variant of TimerAfterFailure in which an error in the callback ends the timer
TimerAfterFailure_Stops(origin) == IF origin = "message" THEN toolTimer ELSE "failed"

\* the timer after refresh() rejected: initialize() rejects before it reaches
\* setInterval, the interval callback's catch logs the error and the timer
\* goes on, bot.onMessage has nothing to do with the timer
TimerAfterFailure(origin) == IF origin = "initialize" THEN "failed" ELSE toolTimer

\* a variant of ListToolsFail that leaves the table cleared
ListToolsFail_ClearTable ==
  /\ \E run \in pending, e \in ListToolsErrors :
        /\ pending' = pending \ {run}
        /\ settledRun' = [id |-> run.id, origin |-> run.origin, kind |-> "rejected",
                          toolList |-> <<>>, error |-> e]
        /\ toolTimer' = TimerAfterFailure(run.origin)
  /\ tools' = <<>>
  /\ UNCHANGED <<started, listToolsLog, observed, catalogFrame>>

\* listTools rejects for one run: the catch logs and rethrows the same error
ListToolsFail ==
  /\ \E run \in pending, e \in ListToolsErrors :
        /\ pending' = pending \ {run}
        /\ settledRun' = [id |-> run.id, origin |-> run.origin, kind |-> "rejected",
                          toolList |-> <<>>, error |-> e]
        /\ toolTimer' = TimerAfterFailure(run.origin)
  /\ UNCHANGED <<tools, started, listToolsLog, observed, catalogFrame>>

\* a reader (getTool, getAllTools, getToolIndex) runs between two steps
ReadTools ==
  /\ observed' = Some(getAllTools(tools))
  /\ UNCHANGED <<tools, pending, started, listToolsLog, settledRun, toolTimer, catalogFrame>>

\* a ToolCache after construction: the table is empty
CatalogInit ==
  /\ tools = <<>>
  /\ BotAtRest
  /\ apiKey = "sk-test"
  /\ entityStale = FALSE
  /\ PlannerAtRest
  /\ HistoryAtRest
  /\ CatalogAtRest
  /\ EntityAtRest
  /\ ExecutorAtRest
  /\ SessionAtRest
  /\ RouterAtRest

CatalogNext ==
  \/ RefreshCall
  \/ ListToolsOk
  \/ ListToolsFail
  \/ ReadTools

CatalogSpec == CatalogInit /\ [][CatalogNext]_vars

(***************************************************************************)
(* ContextProvider.refreshEntityCatalog run by run, with its callers       *)
(* (src/unnamed/part_001)                                                  *)
(***************************************************************************)
MaxRefreshRuns == 2

\* everything the steps of the ContextProvider leave alone
entityFrame == <<botVars, plannerVars, historyVars, catalogVars, executorVars, sessionVars, routerVars>>

\* the resources the server answers resources/list with; an answer without
\* resources is the empty list (result?.resources || [])
ResourceLists ==
  { << [uri |-> "projects://all"], [uri |-> ""], [uri |-> "projects://p1"],
       [uri |-> "users://all/active"] >>,
    << >> }

\* discoverResources for each of these answers, worked out once
DiscoveredOf == [resources \in ResourceLists |-> Discovered(resources)]

\* the resource type of every uri the loop can meet, worked out once
TypeOfUri ==
  [uri \in { r.uri : r \in UNION { Range(DiscoveredOf[l]) : l \in ResourceLists }
                            \cup Range(DefaultResources) } |-> ResourceType(uri)]

\* the items the server holds
Aspen == << StrArg("id", "p1"), StrArg("projectName", "Aspen") >>

Birch == << StrArg("projectsId", "p2"), StrArg("title", "Birch"), StrArg("name", "") >>

Ann == << NumArg("_id", "7"), StrArg("name", "Ann"), NumArg("id", "0") >>

\* what readResource resolves with, by resource type
Payloads ==
  [type \in {"projects", "users", "documents"} |->
     CASE type = "projects" -> { ArrayPayload(<<Some(Aspen), Some(Birch)>>), TextPayload }
       [] type = "users" -> { ObjectPayload(Some(Ann)), ArrayPayload(<<Null>>) }
       [] OTHER -> { AbsentPayload, TextPayload }]

\* what each payload makes the loop store, worked out once
StoredOfPayload ==
  [type \in DOMAIN Payloads |-> [payload \in Payloads[type] |-> Stored(payload, type)]]

\* this.entityCache[resourceType] = entities
WithEntities(cache, resourceType, entities) == (resourceType :> entities) @@ cache

\* a variant of IsStale that holds at the interval already
IsStale_AtInterval(t, last) == t - last >= entityRefreshInterval

\* now - this.lastEntityRefresh > this.entityRefreshInterval
IsStale(t, last) == t - last > entityRefreshInterval

\* what a call of Date.now() can return: the instant the previous call
\* returned, or one a refresh interval later
Instants ==
  IF dateNow < processStart + MaxClock * entityRefreshInterval
  THEN {dateNow, dateNow + entityRefreshInterval}
  ELSE {dateNow}

\* refreshEntityCatalog() is called and runs up to the await of listResources
\* in discoverResources
StartRefresh(origin) ==
  /\ refreshStarted < MaxRefreshRuns
  /\ refreshStarted' = refreshStarted + 1
  /\ refreshRuns' = refreshRuns (+) SetToBag(
       { [origin |-> origin, at |-> "discover", i |-> 0, resources |-> <<>>, made |-> 0] })
  /\ runLog' = [alone |-> refreshRuns = EmptyBag, reads |-> {}]
  /\ UNCHANGED <<entityCache, discoveredResources, lastEntityRefresh, listed, cacheObject,
                 obtained, entityFrame>>

\* contextProvider.initialize() is called by the startup code
Initialize ==
  /\ refreshInterval = "unset"
  /\ \A run \in BagToSet(refreshRuns) : run.origin /= "initialize"
  /\ StartRefresh("initialize")
  /\ UNCHANGED <<refreshInterval, dateNow>>

\* the interval timer fires
TimerTick ==
  /\ refreshInterval = "armed"
  /\ StartRefresh("timer")
  /\ UNCHANGED <<refreshInterval, dateNow>>

\* getEntityCatalog() or getUserContext() is called while the cache is stale.
\* The two run the same code up to their return statement, so which of them
\* the caller is shows when the call returns
CallWhenStale ==
  /\ \E t \in Instants :
        /\ IsStale(t, lastEntityRefresh)
        /\ dateNow' = t
  /\ StartRefresh("caller")
  /\ UNCHANGED refreshInterval

\* what a call hands to its caller: getEntityCatalog the object
\* this.entityCache refers to, in the condition it is in
Returned(fn, stale, work) ==
  [fn |-> fn, stale |-> stale, work |-> IF fn = "getEntityCatalog" THEN work ELSE "none"]

\* getEntityCatalog() or getUserContext() is called while the cache is fresh:
\* the call returns at once
CallWhenFresh ==
  /\ \E t \in Instants :
        /\ ~IsStale(t, lastEntityRefresh)
        /\ dateNow' = t
  /\ \E fn \in {"getEntityCatalog", "getUserContext"} :
        obtained' = Returned(fn, FALSE, cacheObject.work)
  /\ UNCHANGED <<entityCache, discoveredResources, lastEntityRefresh, refreshInterval,
                 refreshRuns, refreshStarted, listed, cacheObject, runLog, entityFrame>>

\* the index of the first resource at or after k whose uri names a type,
\* 0 when the loop has run out of resources
NextTyped(resources, k) ==
  FirstPos({ j \in k..Len(resources) : ~TypeOfUri[resources[j].uri].null })

\* a variant of Continue that records a refresh only when the run has
\* fetched something
Continue_StampsWhenFilled(run, resources, k, mine, made, cache, work) ==
  /\ entityCache' = cache
  /\ IF NextTyped(resources, k) > 0
     THEN /\ refreshRuns' = (refreshRuns (-) SetToBag({run})) (+) SetToBag(
               { [run EXCEPT !.at = "read", !.i = NextTyped(resources, k),
                             !.resources = resources, !.made = mine] })
          /\ cacheObject' = [made |-> made, work |-> work]
          /\ UNCHANGED <<lastEntityRefresh, dateNow, obtained, refreshInterval>>
     ELSE /\ refreshRuns' = refreshRuns (-) SetToBag({run})
          /\ cacheObject' =
               [made |-> made,
                work |-> IF mine = made /\ work = "filling" THEN "whole" ELSE work]
          /\ \E t \in Instants :
                /\ dateNow' = t
                /\ lastEntityRefresh' = IF cache = EmptyCatalog THEN lastEntityRefresh ELSE t
          /\ refreshInterval' = IF run.origin = "initialize" THEN "armed" ELSE refreshInterval
          /\ IF run.origin = "caller"
             THEN \E fn \in {"getEntityCatalog", "getUserContext"} :
                     obtained' = Returned(fn, TRUE,
                                   IF mine = made /\ work = "filling" THEN "whole" ELSE work)
             ELSE UNCHANGED obtained
  /\ UNCHANGED <<refreshStarted, entityFrame>>

\* the loop of refreshEntityCatalog moves on from index k, the cache object
\* being number made with content cache in condition work: the run awaits the
\* next readResource, or it sets lastEntityRefresh and resolves, which arms
\* the timer when initialize() awaits it and resumes the caller that awaits
\* it before anything else runs
Continue(run, resources, k, mine, made, cache, work) ==
  /\ entityCache' = cache
  /\ IF NextTyped(resources, k) > 0
     THEN /\ refreshRuns' = (refreshRuns (-) SetToBag({run})) (+) SetToBag(
               { [run EXCEPT !.at = "read", !.i = NextTyped(resources, k),
                             !.resources = resources, !.made = mine] })
          /\ cacheObject' = [made |-> made, work |-> work]
          /\ UNCHANGED <<lastEntityRefresh, dateNow, obtained, refreshInterval>>
     ELSE /\ refreshRuns' = refreshRuns (-) SetToBag({run})
          /\ cacheObject' =
               [made |-> made,
                work |-> IF mine = made /\ work = "filling" THEN "whole" ELSE work]
          /\ \E t \in Instants :
                /\ dateNow' = t
                /\ lastEntityRefresh' = t
          /\ refreshInterval' = IF run.origin = "initialize" THEN "armed" ELSE refreshInterval
          /\ IF run.origin = "caller"
             THEN \E fn \in {"getEntityCatalog", "getUserContext"} :
                     obtained' = Returned(fn, TRUE,
                                   IF mine = made /\ work = "filling" THEN "whole" ELSE work)
             ELSE UNCHANGED obtained
  /\ UNCHANGED <<refreshStarted, entityFrame>>

\* listResources resolves for one run: discoverResources keeps the list
\* endpoints, the run makes this.entityCache a new empty object and enters
\* its loop
ListResourcesOk ==
  \E run \in BagToSet(refreshRuns), resources \in ResourceLists :
     /\ run.at = "discover"
     /\ discoveredResources' = DiscoveredOf[resources]
     /\ listed' = [kind |-> "resolved", resources |-> resources]
     /\ UNCHANGED runLog
     /\ Continue(run, DiscoveredOf[resources], 1, cacheObject.made + 1,
                 cacheObject.made + 1, EmptyCatalog, "filling")

\* listResources rejects for one run: discoverResources falls back to the
\* three known resources and the run goes on as above
ListResourcesFail ==
  \E run \in BagToSet(refreshRuns) :
     /\ run.at = "discover"
     /\ discoveredResources' = DefaultResources
     /\ listed' = [kind |-> "rejected", resources |-> <<>>]
     /\ UNCHANGED runLog
     /\ Continue(run, DefaultResources, 1, cacheObject.made + 1,
                 cacheObject.made + 1, EmptyCatalog, "filling")

\* the type of the resource a run awaits
TypeAwaited(run) == TypeOfUri[run.resources[run.i].uri].v

\* the log of a run that ran alone so far, with one more read settled
Logged(resourceType, kind) ==
  IF runLog.alone THEN [runLog EXCEPT !.reads = @ \cup {<<resourceType, kind>>}] ELSE runLog

\* readResource resolves for one run: the entities, if the payload yields
\* any, are stored in the object this.entityCache refers to now, which is the
\* work of several runs once a run that did not create it has stored in it
ReadOk ==
  \E run \in BagToSet(refreshRuns) :
     /\ run.at = "read"
     /\ \E payload \in Payloads[TypeAwaited(run)] :
          /\ IF StoredOfPayload[TypeAwaited(run)][payload].null
             THEN Continue(run, run.resources, run.i + 1, run.made, cacheObject.made,
                           entityCache, cacheObject.work)
             ELSE Continue(run, run.resources, run.i + 1, run.made, cacheObject.made,
                           WithEntities(entityCache, TypeAwaited(run),
                                        StoredOfPayload[TypeAwaited(run)][payload].v),
                           IF run.made = cacheObject.made THEN cacheObject.work ELSE "mixed")
          /\ runLog' = Logged(TypeAwaited(run), payload.kind)
     /\ UNCHANGED <<discoveredResources, listed>>

\* a variant of ReadFail in which the error ends the loop
ReadFail_Abort ==
  \E run \in BagToSet(refreshRuns) :
     /\ run.at = "read"
     /\ Continue(run, run.resources, Len(run.resources) + 1, run.made, cacheObject.made,
                 entityCache, cacheObject.work)
     /\ runLog' = Logged(TypeAwaited(run), "rejected")
     /\ UNCHANGED <<discoveredResources, listed>>

\* readResource rejects for one run: the catch inside the loop logs the error
\* and the loop moves on
ReadFail ==
  \E run \in BagToSet(refreshRuns) :
     /\ run.at = "read"
     /\ Continue(run, run.resources, run.i + 1, run.made, cacheObject.made,
                 entityCache, cacheObject.work)
     /\ runLog' = Logged(TypeAwaited(run), "rejected")
     /\ UNCHANGED <<discoveredResources, listed>>

\* a ContextProvider after construction
EntityInit ==
  /\ tools = <<>>
  /\ BotAtRest
  /\ apiKey = "sk-test"
  /\ entityStale = FALSE
  /\ PlannerAtRest
  /\ HistoryAtRest
  /\ CatalogAtRest
  /\ EntityAtRest
  /\ ExecutorAtRest
  /\ SessionAtRest
  /\ RouterAtRest

EntityNext ==
  \/ Initialize
  \/ TimerTick
  \/ CallWhenStale
  \/ CallWhenFresh
  \/ ListResourcesOk
  \/ ListResourcesFail
  \/ ReadOk
  \/ ReadFail

EntitySpec == EntityInit /\ [][EntityNext]_vars

(***************************************************************************)
(* The one PlanExecutor of the process (src/src/planExecutor.ts) and the   *)
(* requests that use it (src/unnamed/part_002), step by step.  The handler *)
(* a request registers sends through that request's TurnContext, so a      *)
(* handler is named by its request.                                        *)
(***************************************************************************)
\* everything the steps of the PlanExecutor leave alone
executorFrame ==
  <<botVars, plannerVars, historyVars, catalogVars, entityVars, sessionVars, routerVars>>

\* the table ToolCache holds while the requests run
ExecutorTable ==
  RefreshTable(<<SendDocumentTool, GetDocumentTool, DeleteProjectTool, ListProjectsTool>>, <<>>)

\* the plans executePlan is called with: route's plans and the plan of a
\* confirmation card
ExecutorPlans ==
  { [calls |-> c, needs_confirmation |-> nc, hasFallback |-> FALSE, fallback_text |-> ""] :
    c \in { <<ModelCall("list_projects", "string", <<>>, "object")>>,
            <<ModelCall("list_projects", "string", <<>>, "object"),
              ModelCall("delete_project", "string", <<StrArg("projectId", "p1")>>, "object")>>,
            <<ModelCall("no_such_tool", "string", <<>>, "object"),
              ModelCall("list_projects", "string", <<>>, "object")>> },
    nc \in {FALSE} }
  \cup { [calls |-> <<ModelCall("delete_project", "string", <<StrArg("projectId", "p1")>>,
                                "object")>>,
          needs_confirmation |-> TRUE, hasFallback |-> FALSE, fallback_text |-> ""] }

\* one step of an execution, as its trace keeps it
Event(ev, i, via, msg) == [ev |-> ev, idx |-> i, via |-> via, msg |-> msg]

\* stream(message) is called for call i and finds the handler h ("none"
\* when this.onStream is unset)
StreamCall(i, h) == Event("stream", i, h, "")

\* a variant of Delivered that sends although no handler is registered
Delivered_Unconditionally(ev, i, via) == << Event(ev, i, via, "") >>

\* stream(message) resolved: the handler found when it was called delivered
\* the message, and without a handler nothing was sent
Delivered(ev, i, via) == IF via = "none" THEN <<>> ELSE << Event(ev, i, via, "") >>

\* PlanExecutor.execute up to its first suspension point, for the request
\* whose execution is e: it returns at once (needs_confirmation, no calls) or
\* calls stream('Executing ...'), which finds the handler h
Begin(e, p, h) ==
  [e EXCEPT !.plan = p, !.result = NewResult(p),
            !.trace = IF EntersLoop(p) /\ Len(p.calls) > 0 THEN << StreamCall(1, h) >> ELSE <<>>,
            !.idx = IF EntersLoop(p) /\ Len(p.calls) > 0 THEN 1 ELSE 0,
            !.pc = IF EntersLoop(p) /\ Len(p.calls) > 0 THEN "stream_start" ELSE "done",
            !.via = IF EntersLoop(p) /\ Len(p.calls) > 0 THEN h ELSE "none"]

\* the end of one loop iteration with ExecutionResult res and the steps
\* steps: the next iteration calls stream('Executing ...'), which finds the
\* handler h, or execute returns
Iterate(e, res, steps, h) ==
  IF e.idx < Len(e.plan.calls)
  THEN [e EXCEPT !.result = res, !.trace = @ \o steps \o << StreamCall(e.idx + 1, h) >>,
                 !.idx = @ + 1, !.pc = "stream_start", !.via = h]
  ELSE [e EXCEPT !.result = res, !.trace = @ \o steps, !.pc = "done", !.via = "none"]

\* handleNaturalLanguage for request r, up to `await router.route(...)`
Receive(r) ==
  /\ executions[r].pc = "idle"
  /\ onStream' = r
  /\ executions' = [executions EXCEPT ![r].pc = "route", ![r].registers = TRUE]
  /\ UNCHANGED executorFrame

\* route resolved (or the user confirmed a card): executePlan registers the
\* request's handler and calls execute
ExecutePlan(r) ==
  /\ executions[r].pc = "route"
  /\ onStream' = r
  /\ \E p \in ExecutorPlans :
        executions' = [executions EXCEPT ![r] = Begin(@, p, onStream')]
  /\ UNCHANGED executorFrame

\* a caller that registers no handler calls execute
Execute(r) ==
  /\ executions[r].pc = "idle"
  /\ \E p \in ExecutorPlans :
        executions' = [executions EXCEPT ![r] = Begin(@, p, onStream)]
  /\ UNCHANGED onStream
  /\ UNCHANGED executorFrame

\* stream('Executing ...') resolved for request r: validateCall runs, and a
\* valid call's callTool request is issued
ExecStreamStartOk(r) ==
  /\ executions[r].pc = "stream_start"
  /\ LET e == executions[r]
         call == e.plan.calls[e.idx]
         validationError == validateCall(call, tools)
         sent == Delivered("starting", e.idx, e.via)
     IN executions' = [executions EXCEPT ![r] =
          IF ~validationError.null
          THEN Iterate(e, PushError(e.result, call, e.idx, validationError.v),
                       sent \o << Event("invalid", e.idx, "none", validationError.v) >>,
                       onStream)
          ELSE [e EXCEPT !.trace = @ \o sent \o << Event("validated", e.idx, "none", ""),
                                                   Event("request", e.idx, "none", "") >>,
                         !.pc = "call", !.via = "none"]]
  /\ UNCHANGED onStream
  /\ UNCHANGED executorFrame

\* the handler rejects on a notification of request r: the catch block
\* records the error and the loop goes on
ExecStreamFail(r) ==
  /\ executions[r].pc \in {"stream_start", "stream_done"}
  /\ executions[r].via # "none"
  /\ LET e == executions[r]
     IN \E m \in StreamErrors :
          executions' = [executions EXCEPT ![r] =
            Iterate(e, PushError(e.result, e.plan.calls[e.idx], e.idx, ErrorText(m)),
                    << Event("undelivered", e.idx, e.via, m) >>, onStream)]
  /\ UNCHANGED onStream
  /\ UNCHANGED executorFrame

\* callTool resolves for request r: the result is appended and
\* stream('Completed ...') is called, which finds the handler registered now
ExecCallOk(r) ==
  /\ executions[r].pc = "call"
  /\ executions' = [executions EXCEPT
        ![r].result = PushResult(@, executions[r].idx, "ok"),
        ![r].trace = @ \o << Event("appended", executions[r].idx, "none", ""),
                             StreamCall(executions[r].idx, onStream) >>,
        ![r].pc = "stream_done",
        ![r].via = onStream]
  /\ UNCHANGED onStream
  /\ UNCHANGED executorFrame

\* callTool rejects for request r: executeCall wraps the error, the catch
\* block records it
ExecCallFail(r) ==
  /\ executions[r].pc = "call"
  /\ LET e == executions[r]
     IN \E m \in RemoteErrors :
          executions' = [executions EXCEPT ![r] =
            Iterate(e, PushError(e.result, e.plan.calls[e.idx], e.idx,
                                 executeCallError(e.plan.calls[e.idx], m)),
                    << Event("rejected", e.idx, "none", m) >>, onStream)]
  /\ UNCHANGED onStream
  /\ UNCHANGED executorFrame

\* stream('Completed ...') resolved for request r
ExecStreamDoneOk(r) ==
  /\ executions[r].pc = "stream_done"
  /\ LET e == executions[r]
     IN executions' = [executions EXCEPT ![r] =
          Iterate(e, e.result, Delivered("completed", e.idx, e.via), onStream)]
  /\ UNCHANGED onStream
  /\ UNCHANGED executorFrame

ExecutorInit ==
  /\ tools = ExecutorTable
  /\ BotAtRest
  /\ apiKey = "sk-test"
  /\ entityStale = FALSE
  /\ PlannerAtRest
  /\ HistoryAtRest
  /\ CatalogAtRest
  /\ EntityAtRest
  /\ ExecutorAtRest
  /\ SessionAtRest
  /\ RouterAtRest

ExecutorNext ==
  \/ \E r \in Requests : Receive(r)
  \/ \E r \in Requests : ExecutePlan(r)
  \/ \E r \in Requests : Execute(r)
  \/ \E r \in Requests : ExecStreamStartOk(r)
  \/ \E r \in Requests : ExecStreamFail(r)
  \/ \E r \in Requests : ExecCallOk(r)
  \/ \E r \in Requests : ExecCallFail(r)
  \/ \E r \in Requests : ExecStreamDoneOk(r)

ExecutorSpec == ExecutorInit /\ [][ExecutorNext]_vars

(***************************************************************************)
(* McpHttpClient.init (src/src/mcpClient.ts) call by call.  Each caller's  *)
(* init() is cut at its awaits: the fetch of the initialize request, the   *)
(* read of its body, and the fetch of the 'initialized' notification.      *)
(***************************************************************************)
\* everything the steps of the McpHttpClient leave alone
sessionFrame ==
  <<botVars, plannerVars, historyVars, catalogVars, entityVars, executorVars, routerVars>>

\* the mcp-session-id header of a response: absent, or the session the
\* server opened for this caller's initialize request
ResponseHeaders(c) == { Null, Some("session-" \o c) }

\* how post() goes on after the body was read: it returns json.result (or
\* null for an empty body), or throws (HTTP status, invalid JSON, json.error)
BodyOutcomes == {"returns", "throws"}

\* `if (!this.sid) { const sid = ...; if (sid) this.sid = sid; }`
Captured(current, header) == IF current.null /\ ~header.null THEN header ELSE current

\* init() is called: it returns the session at once when there is one, and
\* otherwise resets the state and awaits the fetch of the initialize request
InitCall(c) ==
  /\ inits[c].pc = "idle"
  /\ IF initialized /\ ~sid.null
     THEN /\ inits' = [inits EXCEPT ![c] = [pc |-> "resolved", header |-> Null, value |-> sid]]
          /\ UNCHANGED <<sid, initialized>>
     ELSE /\ sid' = Null
          /\ initialized' = FALSE
          /\ inits' = [inits EXCEPT ![c] = [pc |-> "initialize", header |-> Null, value |-> Null]]
  /\ UNCHANGED sessionFrame

\* the catch block of init: the state is reset and init() rejects
InitRejects(c) ==
  /\ sid' = Null
  /\ initialized' = FALSE
  /\ inits' = [inits EXCEPT ![c].pc = "rejected"]

\* fetch resolves for the initialize request of c: post captures the
\* session id when the client has none, and awaits the body
InitializeResponse(c) ==
  /\ inits[c].pc = "initialize"
  /\ \E h \in ResponseHeaders(c) : sid' = Captured(sid, h)
  /\ inits' = [inits EXCEPT ![c].pc = "body"]
  /\ UNCHANGED initialized
  /\ UNCHANGED sessionFrame

\* fetch rejects for the initialize request of c (network failure, or the
\* abort of the ten second timer)
InitializeFetchFail(c) ==
  /\ inits[c].pc = "initialize"
  /\ InitRejects(c)
  /\ UNCHANGED sessionFrame

\* the body of the initialize response was read: post throws, or it returns
\* and init checks this.sid and calls postNotification, which puts this.sid
\* in the header and awaits its fetch
InitializeBody(c) ==
  /\ inits[c].pc = "body"
  /\ \E o \in BodyOutcomes :
        IF o = "throws" \/ sid.null
        THEN InitRejects(c)
        ELSE /\ inits' = [inits EXCEPT ![c].pc = "notify", ![c].header = sid]
             /\ UNCHANGED <<sid, initialized>>
  /\ UNCHANGED sessionFrame

\* the notification of c was accepted: postNotification captures a session
\* id when the client has none, and init sets initialized and returns
\* this.sid
NotificationOk(c) ==
  /\ inits[c].pc = "notify"
  /\ \E h \in ResponseHeaders(c) : sid' = Captured(sid, h)
  /\ initialized' = TRUE
  /\ inits' = [inits EXCEPT ![c].pc = "resolved", ![c].value = sid']
  /\ UNCHANGED sessionFrame

\* the notification of c failed: fetch rejects, or the status is not ok
NotificationFail(c) ==
  /\ inits[c].pc = "notify"
  /\ InitRejects(c)
  /\ UNCHANGED sessionFrame

\* the caller of a settled init() has gone on
InitSettled(c) ==
  /\ inits[c].pc \in {"resolved", "rejected"}
  /\ inits' = [inits EXCEPT ![c] = IdleInit]
  /\ UNCHANGED <<sid, initialized>>
  /\ UNCHANGED sessionFrame

SessionInit ==
  /\ tools \in RefreshedTables
  /\ BotAtRest
  /\ apiKey = "sk-test"
  /\ entityStale = FALSE
  /\ PlannerAtRest
  /\ HistoryAtRest
  /\ CatalogAtRest
  /\ EntityAtRest
  /\ ExecutorAtRest
  /\ SessionAtRest
  /\ RouterAtRest

SessionNext ==
  \/ \E c \in Callers : InitCall(c)
  \/ \E c \in Callers : InitializeResponse(c)
  \/ \E c \in Callers : InitializeFetchFail(c)
  \/ \E c \in Callers : InitializeBody(c)
  \/ \E c \in Callers : NotificationOk(c)
  \/ \E c \in Callers : NotificationFail(c)
  \/ \E c \in Callers : InitSettled(c)

SessionSpec == SessionInit /\ [][SessionNext]_vars

(***************************************************************************)
(* Router.route, Router.extractArgsFromMessage (src/src/router.ts) and     *)
(* PlanExecutor.validateCall (src/src/planExecutor.ts) applied to inputs   *)
(***************************************************************************)
\* everything the applications leave alone
routerFrame ==
  <<botVars, plannerVars, historyVars, catalogVars, entityVars, executorVars, sessionVars>>

\* a tool with two required properties of different types
AssignTaskTool ==
  ServerTool("assign_task", "Assign a task to somebody", TRUE,
             <<Prop("title", "string"), Prop("priority", "number"), Prop("urgent", "boolean")>>,
             <<"title", "priority">>)

\* a tool whose schema lists a required property and has no `properties`
ServerStatusTool ==
  ServerTool("get_status", "Report the status of a server", FALSE, <<>>, <<"id">>)

\* the tables of the ToolCache the functions are applied with
RouterTables ==
  { RefreshTable(toolList, <<>>) :
      toolList \in { <<SendDocumentTool, GetDocumentTool, DeleteProjectTool, ListProjectsTool>>,
                     <<AssignTaskTool, ListProjectsTool>>,
                     <<ServerStatusTool, AssignTaskTool, SendDocumentTool>> } }

\* the messages the functions are applied to
RouterMessages ==
  Messages
  \cup { "assign task title Review",
         "assign task title Review priority: 3",
         "assign task number 7 urgent=yes",
         "assign",
         "send the pdf",
         "status",
         "hello" }

\* the calls validateCall is applied to
RouterCalls ==
  { PlanCall("no_such_tool", <<>>),
    PlanCall("list_projects", <<>>),
    PlanCall("list_projects", <<NumArg("limit", "5")>>),
    PlanCall("delete_project", <<NumArg("projectId", "7")>>),
    PlanCall("assign_task", <<StrArg("title", "Review"), NumArg("priority", "3")>>),
    PlanCall("assign_task", <<StrArg("title", "Review")>>),
    PlanCall("assign_task", <<StrArg("title", "Review"), StrArg("priority", "3")>>),
    PlanCall("assign_task", <<StrArg("title", "Review"), NumArg("priority", "3"),
                              StrArg("urgent", "yes")>>),
    PlanCall("assign_task", <<StrArg("title", "Review"), NumArg("priority", "3"),
                              StrArg("note", "soon")>>),
    PlanCall("get_status", <<>>),
    PlanCall("get_status", <<StrArg("id", "web-1")>>) }

\* the exampleArgs tryFastPath passes for a tool: the args of one of its
\* examples, or {}
ExampleArgsOf(tool) == { tool.examples[i].args : i \in 1..Len(tool.examples) } \cup { <<>> }

\* validateCall on each call of a plan
RECURSIVE ValidateCalls(_, _)
ValidateCalls(calls, table) ==
  IF Len(calls) = 0 THEN <<>>
  ELSE <<validateCall(calls[1], table)>> \o ValidateCalls(Tail(calls), table)

\* route(message) up to the choice between the fast path and the planner,
\* and what validateCall says of each call of a fast-path plan
Routing(m, table, pool, found) ==
  [fn |-> "route", message |-> m, tools |-> table, matches |-> pool, fastPathMatches |-> found,
   planner |-> Len(found) = 0,
   plan |-> IF Len(found) > 0 THEN FastPathPlan(found) ELSE NoPlan,
   validation |-> IF Len(found) > 0 THEN ValidateCalls(FastPathPlan(found).calls, table)
                  ELSE <<>>]

RoutingOf ==
  [m \in RouterMessages, table \in RouterTables |->
     Routing(m, table, EmitCandidates(m, table), tryFastPath(m, table))]

\* extractArgsFromMessage(message, tool, exampleArgs), with the args object
\* as it is after the loop
Extraction(m, tool, exampleArgs) ==
  [fn |-> "extractArgsFromMessage", message |-> m, tool |-> tool, exampleArgs |-> exampleArgs,
   args |-> ExtractLoop(m, IF tool.inputSchema.hasProps THEN tool.inputSchema.properties
                           ELSE <<>>, exampleArgs),
   returned |-> extractArgsFromMessage(m, tool, exampleArgs)]

\* every application of extractArgsFromMessage to the inputs: a message, a
\* tool of a table and the exampleArgs tryFastPath may pass for it
Extractions ==
  UNION { UNION { { Extraction(m, tool, exampleArgs) : exampleArgs \in ExampleArgsOf(tool) } :
                  tool \in Range(table) } :
          m \in RouterMessages, table \in RouterTables }

\* validateCall(call) with the table in the ToolCache
Validation(call, table) ==
  [fn |-> "validateCall", call |-> call, tools |-> table, returned |-> validateCall(call, table)]

Validations == { Validation(call, table) : call \in RouterCalls, table \in RouterTables }

ApplyRoute ==
  /\ applied = NotApplied
  /\ \E m \in RouterMessages, table \in RouterTables : applied' = RoutingOf[m, table]
  /\ UNCHANGED routerFrame

ApplyExtract ==
  /\ applied = NotApplied
  /\ applied' \in Extractions
  /\ UNCHANGED routerFrame

ApplyValidate ==
  /\ applied = NotApplied
  /\ applied' \in Validations
  /\ UNCHANGED routerFrame

\* the caller has taken what the function returned
TakeResult ==
  /\ applied # NotApplied
  /\ applied' = NotApplied
  /\ UNCHANGED routerFrame

RouterInit ==
  /\ tools = ExecutorTable
  /\ BotAtRest
  /\ apiKey = "sk-test"
  /\ entityStale = FALSE
  /\ PlannerAtRest
  /\ HistoryAtRest
  /\ CatalogAtRest
  /\ EntityAtRest
  /\ ExecutorAtRest
  /\ SessionAtRest
  /\ RouterAtRest

RouterNext ==
  \/ ApplyRoute
  \/ ApplyExtract
  \/ ApplyValidate
  \/ TakeResult

RouterSpec == RouterInit /\ [][RouterNext]_vars

(***************************************************************************)
(* Properties                                                              *)
(***************************************************************************)
\* route() has resolved for the current message
Routed ==
  /\ pc \in {"llm", "card", "stream_start", "call", "stream_done", "done", "idle"}
  /\ planSource # "none" \/ plannerCalls > 0

LastOf(seq) == seq[Len(seq)]

StartsWith(s, t) == Len(t) <= Len(s) /\ SubSeq(s, 1, Len(t)) = t

\* C1: execute() on a plan with needs_confirmation = true returns at once
\* with results = [], errors = [] and needsConfirmation = true, and no
\* callTool request (and no notification) is issued, whatever the calls are.
C1_ConfirmationShortCircuit ==
  (confirmed /\ plan.needs_confirmation) =>
     /\ pc \in {"done", "idle"}
     /\ result.results = <<>>
     /\ result.errors = <<>>
     /\ result.needsConfirmation
     /\ callLog = <<>>
     /\ inFlight = {}
     /\ streamLog = <<>>

C1_Witness ==
  /\ confirmed
  /\ plan.needs_confirmation
  /\ Len(plan.calls) = 2
  /\ pc = "done"

\* the step in which the call at idx is validated (its 'Executing'
\* notification was delivered)
ValidationStep == pc = "stream_start" /\ streamLog' # streamLog

\* C2: a call that fails validation issues no callTool, adds exactly one
\* {call, error} entry, sets success = false, and the loop goes on to the
\* next call of the plan.
C2_InvalidCallSkipped ==
  [][ (ValidationStep /\ ~validateCall(plan.calls[idx], tools).null) =>
        /\ callLog' = callLog
        /\ inFlight' = inFlight
        /\ result'.results = result.results
        /\ result'.errors = Append(result.errors,
                                   [call |-> plan.calls[idx], index |-> idx,
                                    error |-> validateCall(plan.calls[idx], tools).v])
        /\ result'.success = FALSE
        /\ IF idx < Len(plan.calls)
           THEN pc' = "stream_start" /\ idx' = idx + 1
           ELSE pc' = "done" ]_vars

\* first call misses a required argument, second call succeeds
C2_Witness ==
  /\ pc = "done"
  /\ Len(plan.calls) = 2
  /\ ~result.success
  /\ Len(result.errors) = 1
  /\ result.errors[1].index = 1
  /\ StartsWith(result.errors[1].error, "Missing required argument: ")
  /\ Len(result.results) = 1
  /\ result.results[1].index = 2
  /\ Len(callLog) = 1

\* C3: callTool requests are issued in plan.calls order, one at a time: a
\* request is issued only when no earlier request is pending.
C3_SequentialCalls ==
  /\ Cardinality(inFlight) <= 1
  /\ inFlight # {} => (pc = "call" /\ inFlight = {idx})
  /\ \A i \in 1..Len(callLog) : callLog[i].pending = {}
  /\ \A i, j \in 1..Len(callLog) : i < j => callLog[i].index < callLog[j].index

C3_Witness ==
  /\ pc = "call"
  /\ Len(callLog) = 2
  /\ inFlight = {2}

\* the step in which the pending callTool of the call at idx rejects
CallFailStep == pc = "call" /\ pc' \notin {"call", "stream_done"}

\* C4 as stated: the error entry of a failed callTool carries a message
\* wrapped with the tool name.
C4_MessageNamesTool ==
  \A i \in 1..Len(result.errors) :
     StartsWith(result.errors[i].error, "Tool execution failed: ")
       => Includes(result.errors[i].error, result.errors[i].call.tool)

\* C4 amended: when callTool rejects, one {call, error} entry for that call
\* is appended whose message is "Tool execution failed: " followed by the
\* remote error's text, success becomes false, and the loop goes on to the
\* next call; execute does not reject.
C4_RemoteFailureRecorded ==
  [][ CallFailStep =>
        /\ Len(result'.errors) = Len(result.errors) + 1
        /\ LastOf(result'.errors).call = plan.calls[idx]
        /\ \E e \in RemoteErrors :
              LastOf(result'.errors).error
                = "Tool execution failed: " \o (IF e = "" THEN "Error" ELSE e)
        /\ result'.results = result.results
        /\ result'.success = FALSE
        /\ IF idx < Len(plan.calls)
           THEN pc' = "stream_start" /\ idx' = idx + 1
           ELSE pc' = "done" /\ reply' = "errors" ]_vars

\* a failed first call followed by a second call that was issued
C4_Witness ==
  /\ Len(result.errors) = 1
  /\ result.errors[1].index = 1
  /\ StartsWith(result.errors[1].error, "Tool execution failed: ")
  /\ Len(callLog) = 2
  /\ Len(result.results) = 1
  /\ pc = "done"

\* C5: success is false exactly when errors is non-empty.
C5_SuccessIffNoErrors == result.success <=> (Len(result.errors) = 0)

C5_Witness ==
  /\ pc = "done"
  /\ ~result.success
  /\ Len(result.errors) = 1
  /\ Len(result.results) = 1

PairsOf(ms) == { PlanCall(ms[i].tool, ms[i].args) : i \in 1..Len(ms) }

\* C6: route invokes the Planner iff the fast path returned no candidate;
\* with candidates the plan's calls are exactly their (tool, args) pairs,
\* needs_confirmation is false, no fallback_text is set and the model is
\* not invoked.
C6_PlannerIffNoFastPath ==
  Routed =>
     /\ (plannerCalls > 0) <=> (Len(fastPathMatches) = 0)
     /\ plannerCalls <= 1
     /\ (planSource = "planner") => (plannerCalls = 1)
     /\ (Len(fastPathMatches) > 0) =>
           /\ planSource = "fast"
           /\ Range(plan.calls) = PairsOf(fastPathMatches)
           /\ ~plan.needs_confirmation
           /\ ~plan.hasFallback

C6_Witness ==
  /\ Routed
  /\ planSource = "fast"
  /\ Cardinality(PairsOf(fastPathMatches)) >= 2
  /\ plannerCalls = 0

\* two calls with the same tool and the same args (as key/value maps)
SameCall(a, b) == a.tool = b.tool /\ Range(a.args) = Range(b.args)

ConfidenceDescending(ms) ==
  \A i, j \in 1..Len(ms) : i < j => ConfGeq(ms[i].confidence, ms[j].confidence)

\* C7 as stated: in a fast-path plan no two calls have the same (tool, args)
\* pair, and the calls are in non-increasing order of confidence.
C7_NoDuplicateCalls ==
  (Routed /\ planSource = "fast") =>
     /\ \A i, j \in 1..Len(plan.calls) : i < j => ~SameCall(plan.calls[i], plan.calls[j])
     /\ \E ms \in {deduplicateMatches(fastPathMatches)} :
           MatchCalls(ms) = plan.calls /\ ConfidenceDescending(ms)

\* C8 as stated: a destructive tool is called only from a plan that had
\* needs_confirmation = true and that the user confirmed.
C8_DestructiveNeedsConfirmation ==
  \A i \in 1..Len(callLog) : callLog[i].destructive => callLog[i].confirmed

\* the messages that contain none of the document keywords
MessagesWithoutKeyword ==
  { m \in Messages :
      ~(\E i \in 1..Len(documentKeywords) :
           Includes(Trim(ToLowerCase(m)), documentKeywords[i])) }

\* C9: a message with no document keyword yields no send_document candidate
\* on any scoring path; if nothing else matches, the match list is empty and
\* route defers to the Planner.
C9_DocumentKeywordGuard ==
  (Routed /\ message \in MessagesWithoutKeyword) =>
     /\ \A i \in 1..Len(matches) : matches[i].tool # "send_document"
     /\ \A i \in 1..Len(fastPathMatches) : fastPathMatches[i].tool # "send_document"
     /\ (matches = <<>>) => (fastPathMatches = <<>> /\ plannerCalls = 1)

\* a message without document keyword that contains send_document's name
\* word "send", routed with a catalog that lists send_document (every
\* catalog with list_projects does)
C9_Witness ==
  /\ Routed
  /\ message = "send me the project deadline"
  /\ \E i \in 1..Len(matches) : matches[i].tool = "list_projects"
  /\ \A i \in 1..Len(matches) : matches[i].tool # "send_document"

Count(seq, m) == Cardinality({ i \in 1..Len(seq) : seq[i] = m })

HasAtLeast(ms, n, d) == \E i \in 1..Len(ms) : ConfGeq(ms[i].confidence, Conf(n, d))

\* the candidates of pool at or above n/d, each as often as it was emitted
ExactlyAtLeast(found, pool, n, d) ==
  \A m \in Range(pool) \cup Range(found) :
     Count(found, m) = IF ConfGeq(m.confidence, Conf(n, d)) THEN Count(pool, m) ELSE 0

\* C10: the returned list is empty iff no pooled candidate reaches 0.5;
\* otherwise it is the candidates >= 0.4 if some candidate reaches 0.6, and
\* the candidates >= 0.5 if none does.
C10_ThresholdSelection ==
  Routed =>
     /\ (fastPathMatches = <<>>) <=> ~HasAtLeast(matches, 1, 2)
     /\ HasAtLeast(matches, 1, 2) =>
           IF HasAtLeast(matches, 3, 5)
           THEN ExactlyAtLeast(fastPathMatches, matches, 2, 5)
           ELSE ExactlyAtLeast(fastPathMatches, matches, 1, 2)

\* a selection in which no candidate reaches 0.6
C10_Witness ==
  /\ Routed
  /\ fastPathMatches # <<>>
  /\ ~HasAtLeast(matches, 3, 5)

(***************************************************************************)
(* Properties of Planner.plan, checked under PlannerSpec                   *)
(***************************************************************************)
\* plan() has settled
Planned == ppc = "done"

\* the model answered in this invocation
Answered == response.text # "none"

\* the tool table has a tool of this name
InTable(name) == \E i \in 1..Len(tools) : tools[i].name = name

\* the rules a returned plan meets call by call
WellFormedCall(call) ==
  /\ call.toolType = "string"
  /\ call.tool # ""
  /\ InTable(call.tool)
  /\ call.argsKind \in {"object", "array"}

\* C11: when the model's response text is not valid JSON (the empty text
\* included), plan() resolves, without throwing, to the fixed fallback plan:
\* calls = [] and a fallback_text that is set.
C11_NonJsonYieldsFallback ==
  (Planned /\ Answered /\ ~response.json) =>
     /\ outcome.kind = "plan"
     /\ outcome.plan.calls = <<>>
     /\ outcome.plan.hasFallback
     /\ outcome.plan.fallback_text = FallbackText

\* the model answered with the empty text
C11_Witness ==
  /\ Planned
  /\ response.text = ""
  /\ outcome = Resolved(FallbackPlan)

\* the parsed response meets every rule of validatePlan
MeetsRules(resp) ==
  /\ resp.callsIsArray
  /\ \A i \in 1..Len(resp.calls) : WellFormedCall(resp.calls[i])

C13_ConfigErrorBeforeAnyRequest ==
  (Planned /\ outcome = Rejected(ConfigError)) => netLog = <<>>

\* C14: the model endpoint is asked at most once per plan(): a failing
\* fetch makes plan() reject with the wrapped error after that one request,
\* and an answer that is unparsable or invalid gives the fallback plan after
\* that one request.
C14_ModelAskedAtMostOnce ==
  /\ Count(netLog, "chat/completions") <= 1
  /\ (Planned /\ outcome.kind = "rejected" /\ outcome.error # ConfigError) =>
        /\ Count(netLog, "chat/completions") = 1
        /\ ~Answered
        /\ \/ \E e \in FetchErrors : outcome.error = NetworkError(e)
           \/ outcome.error = HttpError("500", "internal error")
  /\ (Planned /\ Answered) =>
        /\ Count(netLog, "chat/completions") = 1
        /\ outcome.kind = "plan"
        /\ ~(response.json /\ MeetsRules(response)) => outcome.plan = FallbackPlan

\* fetch was rejected and plan() rejected with the wrapped error
C14_Witness ==
  /\ Planned
  /\ outcome = Rejected(NetworkError("fetch failed"))
  /\ Count(netLog, "chat/completions") = 1

\* C15 as stated: for a history of any length the history lines of the
\* prompt and the role-tagged messages hold at most 10 turns each.
C15_AtMostTenTurns ==
  ppc = "fetch" =>
     /\ Len(llmRequest.prompt) <= historyWindow
     /\ Len(llmRequest.messages) <= historyWindow

(***************************************************************************)
(* Properties of ConversationHistory, checked under HistorySpec            *)
(***************************************************************************)
\* no entry of list is older than maxAge now
NoneExpired(list) == \A i \in 1..Len(list) : now - list[i].timestamp <= maxAge

\* C16: with maxMessages >= 1, right after addMessage(u, ...) has returned
\* the stored history of u has at most maxMessages entries and none of them
\* is older than maxAge, whatever calls and passage of time came before.
C16_AddMessageWithinLimits ==
  (maxMessages >= 1 /\ lastOp.op = "addMessage") =>
     /\ Len(StoredOf(lastOp.user)) <= maxMessages
     /\ NoneExpired(StoredOf(lastOp.user))

\* an addMessage after time has passed that leaves the history full
C16_Witness ==
  /\ lastOp.op = "addMessage"
  /\ maxMessages = MaxMessages
  /\ maxAge >= 1
  /\ now >= 1
  /\ Len(StoredOf(lastOp.user)) = maxMessages

\* C17 as stated, for the age: getHistory(u) never returns an entry that is
\* older than maxAge at the time of the call.
C17_ReadReturnsNoExpiredEntry ==
  (maxMessages >= 1 /\ lastOp.op = "getHistory") => NoneExpired(returned)

\* cleanup keeps every entry of list now
AllKept(list) == \A i \in 1..Len(list) : list[i].timestamp > now - maxAge

\* C18: mutating the list getHistory returned leaves every stored history
\* as it was, and a second getHistory(u) with no addMessage or clearHistory
\* in between returns what the first returned, provided cleanup has dropped
\* none of those entries for their age.
C18_ReturnedListIsACopy ==
  /\ [][lastOp'.op = "mutate" => conversations' = conversations]_vars
  /\ []((lastOp.op = "getHistory" /\ ~prevRead.null /\ AllKept(prevRead.v))
          => returned = prevRead.v)

\* the caller has changed the list it was returned and the stored history
\* still is what was returned
C18_Witness ==
  /\ lastOp.op = "mutate"
  /\ ~lastRead.null
  /\ lastRead.v.content # <<>>
  /\ returned # lastRead.v.content
  /\ StoredOf(lastOp.user) = lastRead.v.content

(***************************************************************************)
(* Properties of ToolCache.refresh, checked under CatalogSpec              *)
(***************************************************************************)
\* the tables a reader may see: the empty table of the construction and the
\* complete table of each tool list
CompleteTables == { <<>> } \cup { TableOf[toolList] : toolList \in ToolLists }

\* C19: however refresh() runs overlap, the table readers see between two
\* steps is the complete table of one run (or the empty table of the
\* construction), never a cleared or partly filled table of a run under way:
\* a run that has not settled has not touched the table, and a run that
\* resolved has left the whole table of its list.
C19_ReadersSeeCompleteTables ==
  /\ tools \in CompleteTables
  /\ settledRun.kind = "none" => tools = <<>>
  /\ settledRun.kind = "resolved" => tools = TableOf[settledRun.toolList]
  /\ ~observed.null => observed.v \in CompleteTables

\* a later run resolved while an earlier one still awaits listTools, and a
\* reader got that run's table
C19_Witness ==
  /\ settledRun.kind = "resolved"
  /\ settledRun.toolList # <<>>
  /\ \E run \in pending : run.id < settledRun.id
  /\ observed = Some(TableOf[settledRun.toolList])

\* C20: when listTools fails for a run, refresh() rejects with that error,
\* issues no further listTools request, and the table stays as it was.
C20_FailedRefreshLeavesTable ==
  /\ [][(settledRun' # settledRun /\ settledRun'.kind = "rejected") =>
          /\ tools' = tools
          /\ listToolsLog' = listToolsLog
          /\ settledRun'.error \in ListToolsErrors
          /\ \E run \in pending : run.id = settledRun'.id /\ pending' = pending \ {run}]_vars
  /\ [](listToolsLog = started)

\* a run was rejected after an earlier one had filled the table
C20_Witness ==
  /\ settledRun.kind = "rejected"
  /\ settledRun.id > 1
  /\ tools # <<>>
  /\ listToolsLog = started

\* the name or the description of a tool contains one of the keywords, in
\* whatever case
HasKeyword(md, keywords) ==
  \E i \in 1..Len(keywords) :
     \/ Includes(ToLowerCase(md.name), keywords[i])
     \/ Includes(ToLowerCase(md.description), keywords[i])

Flags(r, w, d) == [read |-> r, write |-> w, destructive |-> d]

SafetyRule(md) ==
  /\ md.safety.destructive => md.safety.write
  /\ md.safety.read <=> ~md.safety.write
  /\ HasKeyword(md, destructiveKeywords) => md.safety = Flags(FALSE, TRUE, TRUE)
  /\ (~HasKeyword(md, destructiveKeywords) /\ ~HasKeyword(md, writeKeywords)) =>
        md.safety = Flags(TRUE, FALSE, FALSE)
  /\ md.name = "delete_project" => md.safety = Flags(FALSE, TRUE, TRUE)
  /\ md.name = "list_projects" => md.safety = Flags(TRUE, FALSE, FALSE)

\* the entries of the tables refresh() can build that keep the rule, worked
\* out once
WellClassified ==
  { md \in UNION { Range(TableOf[toolList]) : toolList \in ToolLists } : SafetyRule(md) }

\* C25: every tool of the table has destructive => write and read <=> ~write;
\* a tool whose name or description contains a destructive keyword is
\* {read: false, write: true, destructive: true} (delete_project is), one
\* that contains no write and no destructive keyword is {read: true,
\* write: false, destructive: false} (list_projects is)
C25_SafetyFlags == \A i \in 1..Len(tools) : tools[i] \in WellClassified

\* a table with a destructive tool, a tool that only writes and a tool that
\* only reads
C25_Witness ==
  /\ \E i \in 1..Len(tools) : tools[i].safety = Flags(FALSE, TRUE, TRUE)
  /\ \E i \in 1..Len(tools) : tools[i].safety = Flags(FALSE, TRUE, FALSE)
  /\ \E i \in 1..Len(tools) : tools[i].safety = Flags(TRUE, FALSE, FALSE)

(***************************************************************************)
(* Properties of the refresh timers, checked under CatalogSpec             *)
(***************************************************************************)
\* the interval callback of ToolCache.initialize calls refresh()
TimerRefresh ==
  /\ RefreshCall
  /\ \E run \in pending' \ pending : run.origin = "timer"

C21_NoHalfUpdatedCatalog ==
  obtained.fn = "getEntityCatalog" => obtained.work = "whole"

\* a step in which the readResource request of run settles
ReadSettles(run) ==
  /\ run.at = "read"
  /\ CopiesIn(run, refreshRuns') < CopiesIn(run, refreshRuns)

\* run has gone on to await the read of its next resource
AwaitsNext(run) ==
  /\ BagCardinality(refreshRuns') = BagCardinality(refreshRuns)
  /\ BagIn([run EXCEPT !.i = NextTyped(run.resources, run.i + 1)], refreshRuns')

\* run has resolved, and whoever awaited it has gone on: initialize() to
\* arming the timer, a caller to its return statement
HasResolved(run) ==
  /\ BagCardinality(refreshRuns') = BagCardinality(refreshRuns) - 1
  /\ run.origin = "initialize" => refreshInterval' = "armed"
  /\ run.origin = "caller" => obtained'.stale

\* C22: when the read of one resource settles, whether it failed, returned
\* text that is not JSON or returned entities, the run goes on to read its
\* next discovered resource and resolves (never rejects) after the last one;
\* the step stores the entities of the resource read or leaves the catalog
\* as it was, so what other resources stored stays
C22_FailedReadDoesNotAbort ==
  [][\A run \in BagToSet(refreshRuns) :
       ReadSettles(run) =>
         /\ IF NextTyped(run.resources, run.i + 1) > 0
            THEN AwaitsNext(run)
            ELSE HasResolved(run)
         /\ \/ entityCache' = entityCache
            \/ \E payload \in Payloads[TypeAwaited(run)] :
                  /\ ~Stored(payload, TypeAwaited(run)).null
                  /\ entityCache' = WithEntities(entityCache, TypeAwaited(run),
                                                 Stored(payload, TypeAwaited(run)).v)]_vars

\* one run alone: its read of projects stored nothing, its read of users
\* stored the users, and it resolved
C22_Witness ==
  /\ refreshStarted = 1
  /\ refreshRuns = EmptyBag
  /\ discoveredResources # <<>>
  /\ discoveredResources[1].uri = "projects://all"
  /\ DOMAIN entityCache = {"users"}
  /\ cacheObject.work = "whole"

\* a step in which a stale getEntityCatalog/getUserContext starts its run
CallerRunStarts ==
  /\ refreshStarted' = refreshStarted + 1
  /\ \E run \in BagToSet(refreshRuns') :
        /\ run.origin = "caller"
        /\ CopiesIn(run, refreshRuns') > CopiesIn(run, refreshRuns)

\* a step in which a run a caller awaits resolves
CallerRunResolves ==
  \E run \in BagToSet(refreshRuns) :
     /\ run.origin = "caller"
     /\ refreshRuns' = refreshRuns (-) SetToBag({run})

\* C23: a getEntityCatalog/getUserContext call that reads an instant more
\* than the refresh interval after lastEntityRefresh starts a
\* refreshEntityCatalog run and returns only in the step in which that run
\* resolves; a call that returns without having awaited a run has read an
\* instant within the interval and has issued no remote request (every
\* request is awaited by a run, and the runs are as they were)
C23_StaleCallsAwaitARefresh ==
  [][/\ CallerRunStarts => dateNow' - lastEntityRefresh > entityRefreshInterval
     /\ (obtained' # obtained /\ obtained'.stale) => CallerRunResolves
     /\ (obtained' # obtained /\ ~obtained'.stale) =>
           /\ dateNow' - lastEntityRefresh <= entityRefreshInterval
           /\ refreshRuns' = refreshRuns
           /\ refreshStarted' = refreshStarted]_vars

\* a call that found the cache stale has returned, in the step in which the
\* run it started resolved; initialize() has had a run of its own
C23_Witness ==
  /\ refreshInterval = "armed"
  /\ refreshStarted = 2
  /\ refreshRuns = EmptyBag
  /\ obtained.stale
  /\ lastEntityRefresh = dateNow

\* C26: the entity stored for the item {"id": "p1", "projectName": "Aspen"}
\* of the resource type projects is {id: "p1", name: "Aspen", projectName:
\* "Aspen"}: the name is taken from projectName and the source field is kept
C26_EntityNormalisation ==
  \A type \in DOMAIN entityCache : \A i \in 1..Len(entityCache[type]) :
     ( /\ type = "projects"
       /\ Field(entityCache[type][i], "id") = Some(StrArg("id", "p1"))
       /\ Field(entityCache[type][i], "projectName") = Some(StrArg("projectName", "Aspen")) )
     => entityCache[type][i] =
          << StrArg("id", "p1"), StrArg("name", "Aspen"), StrArg("projectName", "Aspen") >>

\* C27: after discoverResources the discovered resources are the listed
\* resources whose uri ends with ://all or contains ://all/, in the order
\* listed, when listResources resolved, and the three defaults when it
\* rejected; either way the run went on to its loop
C27_DiscoveredResources ==
  /\ listed.kind = "none" => discoveredResources = <<>>
  /\ listed.kind = "resolved" =>
        discoveredResources =
          SelectSeq(listed.resources,
                    LAMBDA r : EndsWith(r.uri, "://all") \/ Includes(r.uri, "://all/"))
  /\ listed.kind = "rejected" =>
        discoveredResources =
          << [uri |-> "projects://all"], [uri |-> "users://all"], [uri |-> "documents://all"] >>
  /\ \A run \in BagToSet(refreshRuns) :
        run.at = "read" => run.resources # <<>>

\* listResources resolved with four resources of which two are list
\* endpoints, and a run reads the second of them
C27_Witness ==
  /\ listed.kind = "resolved"
  /\ Len(listed.resources) = 4
  /\ Len(discoveredResources) = 2
  /\ \E run \in BagToSet(refreshRuns) : run.at = "read" /\ run.i = 2

\* the last run has resolved, no run is in progress and no other run was in
\* progress while it ran
RanAlone == runLog.alone /\ refreshRuns = EmptyBag

\* the resource types whose read resolved with a payload that parses as JSON
\* in the run logged (an absent text is read as '[]')
ParsedTypes == { r[1] : r \in { x \in runLog.reads : x[2] \notin {"rejected", "text"} } }

\* C38: after a run of refreshEntityCatalog that no other run overlapped has
\* resolved, the resource types of the catalog are exactly the types whose
\* read resolved with JSON in that run; a type whose read failed or returned
\* text that is not JSON has no entry, whatever the catalog held before
C38_CatalogIsWhatTheRunParsed ==
  RanAlone => DOMAIN entityCache = ParsedTypes

\* the last run ran alone and has resolved; its listResources request was
\* rejected and so was the read of each of the three default resources
AllFailed ==
  /\ RanAlone
  /\ listed.kind = "rejected"
  /\ runLog.reads = { <<"projects", "rejected">>, <<"users", "rejected">>,
                      <<"documents", "rejected">> }

\* C39: a run in which discovery and every read failed sets lastEntityRefresh
\* to the instant it resolves at and leaves the catalog empty; as long as
\* Date.now() is within the refresh interval of that instant, no
\* getEntityCatalog/getUserContext call starts a run (a run that starts is
\* the timer's or initialize()'s), and a call that returns has awaited
\* nothing and getEntityCatalog hands out the empty catalog
C39_FailedRunCountsAsRefresh ==
  [][/\ (AllFailed' /\ refreshRuns # EmptyBag) =>
           /\ lastEntityRefresh' = dateNow'
           /\ entityCache' = EmptyCatalog
     /\ (AllFailed /\ dateNow' - lastEntityRefresh <= entityRefreshInterval) =>
           /\ ~CallerRunStarts
           /\ obtained' # obtained =>
                 /\ ~obtained'.stale
                 /\ refreshStarted' = refreshStarted
                 /\ refreshRuns' = refreshRuns
                 /\ entityCache' = EmptyCatalog
                 /\ obtained'.fn = "getEntityCatalog" => obtained'.work = "whole"]_vars

\* after such a run, a getEntityCatalog call made a whole refresh interval
\* later has returned without a run
C39_Witness ==
  /\ AllFailed
  /\ dateNow = lastEntityRefresh + entityRefreshInterval
  /\ obtained.fn = "getEntityCatalog"
  /\ ~obtained.stale
  /\ refreshStarted = 1


\* C29: when the user has confirmed the card of a plan and the handling of
\* the confirmation has finished, a callTool request was issued for every
\* call of the plan that validateCall accepts; after a cancel none was issued
C29_ConfirmedPlanIsExecuted ==
  /\ (confirmed /\ pc = "done") =>
        \A i \in 1..Len(plan.calls) :
           validateCall(plan.calls[i], tools).null =>
              \E k \in 1..Len(callLog) : callLog[k].index = i
  /\ reply = "cancelled" => callLog = <<>>

(***************************************************************************)
(* Properties of the PlanExecutor, checked under ExecutorSpec              *)
(***************************************************************************)
\* the notifications an execution emitted
Emitted(e) == SelectSeq(e.trace, LAMBDA x : x.ev \in {"starting", "completed"})

\* how the remote calls of an execution settled, in order
RemoteOutcomes(e) == SelectSeq(e.trace, LAMBDA x : x.ev \in {"appended", "rejected"})

\* no call of stream() of the execution found a handler
Handlerless(e) == \A k \in 1..Len(e.trace) : e.trace[k].ev = "stream" => e.trace[k].via = "none"

\* every call of stream() of the execution found a handler, and the handler
\* delivered
Handled(e) ==
  \A k \in 1..Len(e.trace) :
     /\ e.trace[k].ev = "stream" => e.trace[k].via # "none"
     /\ e.trace[k].ev # "undelivered"

\* the call of stream() that precedes step k found no handler, or its
\* 'starting' notification for the call of step k is step k - 1
StartedBefore(t, k) ==
  /\ k > 1
  /\ \/ t[k - 1].ev = "starting" /\ t[k - 1].idx = t[k].idx
     \/ t[k - 1] = StreamCall(t[k].idx, "none")

\* the 'completed' notification of step k comes after the request of its
\* call and after the result was appended
CompletedAfter(e, k) ==
  /\ \E j \in 1..(k - 1) : \E i \in 1..(j - 1) :
        /\ e.trace[i].ev = "request" /\ e.trace[i].idx = e.trace[k].idx
        /\ e.trace[j].ev = "appended" /\ e.trace[j].idx = e.trace[k].idx
  /\ \E n \in 1..Len(e.result.results) : e.result.results[n].index = e.trace[k].idx
  /\ \A j \in 1..Len(e.trace) :
        e.trace[j].ev \in {"invalid", "rejected"} => e.trace[j].idx # e.trace[k].idx

\* C28: in every execution the 'starting' notification of a call comes
\* before the call is validated and before its request is issued; a
\* 'completed' notification comes only after the call's request resolved
\* and its result was appended, never for a call that was invalid or whose
\* request was rejected; an execution that found no handler emits nothing,
\* and it returns the ExecutionResult of an execution of the same plan with
\* the same remote outcomes whose handler delivered every notification
C28_ProgressNotifications ==
  /\ \A r \in Requests :
        LET e == executions[r]
        IN /\ \A k \in 1..Len(e.trace) :
                /\ e.trace[k].ev \in {"validated", "invalid"} => StartedBefore(e.trace, k)
                /\ e.trace[k].ev = "request" =>
                     /\ e.trace[k - 1].ev = "validated"
                     /\ StartedBefore(e.trace, k - 1)
                /\ e.trace[k].ev = "completed" => CompletedAfter(e, k)
           /\ Handlerless(e) => Emitted(e) = <<>>
  /\ \A r1, r2 \in Requests :
        /\ executions[r1].pc = "done" /\ executions[r2].pc = "done"
        /\ executions[r1].plan = executions[r2].plan
        /\ RemoteOutcomes(executions[r1]) = RemoteOutcomes(executions[r2])
        /\ Handlerless(executions[r1]) /\ Handled(executions[r2])
        => executions[r1].result = executions[r2].result

\* an execution without a handler and one with a handler have run the same
\* plan of an invalid and a valid call, whose request resolved
C28_Witness ==
  \E r1, r2 \in Requests :
     /\ executions[r1].pc = "done" /\ executions[r2].pc = "done"
     /\ executions[r1].plan = executions[r2].plan
     /\ RemoteOutcomes(executions[r1]) = RemoteOutcomes(executions[r2])
     /\ Handlerless(executions[r1]) /\ Handled(executions[r2])
     /\ Len(executions[r1].result.results) = 1
     /\ Len(executions[r1].result.errors) = 1
     /\ Len(Emitted(executions[r2])) = 3


\* C30: every notification of the execution of a request that registered
\* its handler is delivered through that request's handler
C30_OwnHandlerOnly ==
  \A r \in Requests :
     executions[r].registers =>
        \A k \in 1..Len(executions[r].trace) :
           executions[r].trace[k].ev \in {"starting", "completed"} =>
              executions[r].trace[k].via = r


(***************************************************************************)
(* Properties of the ExecutionResult, checked under Spec                   *)
(***************************************************************************)
\* execute() has returned for a plan it ran the loop for
ExecuteReturned ==
  /\ pc = "done"
  /\ reply \in {"errors", "results", "no_output"}
  /\ ~plan.needs_confirmation

\* C31: when execute has returned for a plan without needs_confirmation,
\* every call of the plan has exactly one entry, in results or in errors and
\* not in both, so |results| + |errors| = |calls|, and both lists are in the
\* order of the calls
C31_ResultsAndErrorsPartitionCalls ==
  ExecuteReturned =>
     /\ Len(result.results) + Len(result.errors) = Len(plan.calls)
     /\ \A i \in 1..Len(plan.calls) :
           Cardinality({ n \in 1..Len(result.results) : result.results[n].index = i })
           + Cardinality({ n \in 1..Len(result.errors) : result.errors[n].index = i }) = 1
     /\ \A m, n \in 1..Len(result.results) :
           m < n => result.results[m].index < result.results[n].index
     /\ \A m, n \in 1..Len(result.errors) :
           m < n => result.errors[m].index < result.errors[n].index


(***************************************************************************)
(* Properties of the McpHttpClient session, checked under SessionSpec      *)
(***************************************************************************)
\* C32: whatever way concurrent init() calls interleave, initialized = true
\* implies that there is a session id, no init() resolves with a null
\* session id, and an 'initialized' notification in flight carries a session
\* id
C32_SessionState ==
  /\ initialized => ~sid.null
  /\ \A c \in Callers :
        /\ inits[c].pc = "resolved" => ~inits[c].value.null
        /\ inits[c].pc = "notify" => ~inits[c].header.null


(***************************************************************************)
(* Properties of the Router's functions, checked under RouterSpec          *)
(***************************************************************************)
\* the call has every property the schema of its tool lists as required
HasRequired(call, table) ==
  \A j \in 1..Len(getTool(table, call.tool)[1].inputSchema.required) :
     HasKey(call.args, getTool(table, call.tool)[1].inputSchema.required[j])

\* validateCall rejected the call for a missing required argument
MissingRequired(validationError) ==
  ~validationError.null /\ StartsWith(validationError.v, "Missing required argument: ")

\* C33: every call of a plan route returns on the fast path has every
\* property its tool's schema requires, and validateCall never answers
\* 'Missing required argument' for such a call
C33_FastPathCallsHaveRequired ==
  (applied.fn = "route" /\ ~applied.planner) =>
     \A i \in 1..Len(applied.plan.calls) :
        /\ HasRequired(applied.plan.calls[i], applied.tools)
        /\ ~MissingRequired(applied.validation[i])


\* every entry of args whose key the schema declares as string, number or
\* boolean has a value of that type
DeclaredTypesMatch(call, schema) ==
  \A i \in 1..Len(call.args) :
     \A j \in 1..Len(schema.properties) :
        (schema.properties[j].name = call.args[i].k
         /\ schema.properties[j].type \in {"string", "number", "boolean"})
        => call.args[i].t = schema.properties[j].type

\* C34: validateCall accepts a call (returns null) exactly when the tool is
\* in the table, every required property of its schema is a key of args and
\* every arg declared as string, number or boolean has a value of that
\* type; args the schema does not declare play no part
C34_ValidateCallAccepts ==
  applied.fn = "validateCall" =>
     (applied.returned.null <=>
        /\ Len(getTool(applied.tools, applied.call.tool)) > 0
        /\ HasRequired(applied.call, applied.tools)
        /\ DeclaredTypesMatch(applied.call,
                              getTool(applied.tools, applied.call.tool)[1].inputSchema))


\* C35: extractArgsFromMessage returns null exactly when the schema has a
\* required property and the args object is empty after the loop (nothing
\* came from the example and nothing from the message); otherwise it
\* returns the args object, complete, partial or empty
C35_ExtractionFailsOnlyWhenEmpty ==
  applied.fn = "extractArgsFromMessage" =>
     /\ applied.returned.null <=>
          (Len(applied.tool.inputSchema.required) > 0 /\ Len(applied.args) = 0)
     /\ ~applied.returned.null => applied.returned.v = applied.args

\* nothing could be filled for a tool with required properties
C35_Witness ==
  /\ applied.fn = "extractArgsFromMessage"
  /\ applied.returned.null
  /\ applied.tool.name = "assign_task"
  /\ applied.message = "hello"


\* the reference trim: the entries of list whose age at t is at most maxAge,
\* reduced to the maxMessages most recent of them
ReferenceTrim(list, t) ==
  LET kept == SelectSeq(list, LAMBDA msg : t - msg.timestamp <= maxAge)
  IN IF Len(kept) <= maxMessages THEN kept
     ELSE SubSeq(kept, Len(kept) - maxMessages + 1, Len(kept))

\* C36: for every maxMessages >= 0 and maxAge >= 0, what addMessage(u, ...)
\* leaves stored for u is the reference trim of the history with the new
\* entry appended: the entries of age <= maxAge, reduced to the maxMessages
\* most recent (none when maxMessages = 0), in their order
C36_DualTrimEqualsReference ==
  [][ \A u \in Users : \A role \in Range(Roles) : \A d \in 0..1 :
        AddMessage(u, role, d) =>
           StoredOf(u)' = ReferenceTrim(Append(StoredOf(u), Message(role, "hi", now)), now')
    ]_vars


\* a < c <= b
ConfWithin(c, a, b) == ConfGt(c, a) /\ ConfGeq(b, c)

\* what each of the three branches of tryFastPath pushes for one tool
ExampleCandidates(m, tool) ==
  ExampleMatches(m, Trim(ToLowerCase(m)), tool, tool.examples)

NameCandidates(m, tool) ==
  LET hits == CountIn(toolNameWords(tool), Trim(ToLowerCase(m)))
  IN IF hits > 0
     THEN PushMatch(tool.name, extractArgsFromMessage(m, tool, <<>>),
                    NameConfidence(hits, Len(toolNameWords(tool))))
     ELSE <<>>

DescCandidates(m, tool) ==
  LET hits == CountIn(descWords(tool), Trim(ToLowerCase(m)))
  IN IF hits > 0
     THEN PushMatch(tool.name, extractArgsFromMessage(m, tool, <<>>),
                    DescConfidence(hits, Len(descWords(tool))))
     ELSE <<>>

CandidatesInRange(cands, a, b) ==
  \A i \in 1..Len(cands) : ConfWithin(cands[i].confidence, a, b)

\* C37: every candidate tryFastPath emits has a confidence above 0.5, one
\* from an example in (0.5, 1], one from the tool name in (0.6, 0.8] and one
\* from the description in (0.5, 0.6]; the threshold filter removes none, the
\* widening to 0.4 admits none, and the returned list is empty iff no
\* candidate was emitted
C37_CandidatesAboveThreshold ==
  applied.fn = "route" =>
    /\ \A i \in 1..Len(applied.matches) :
          /\ ConfGt(applied.matches[i].confidence, Conf(1, 2))
          /\ \E tool \in Range(getAllTools(applied.tools)) :
                applied.matches[i] \in Range(ExampleCandidates(applied.message, tool))
                                       \cup Range(NameCandidates(applied.message, tool))
                                       \cup Range(DescCandidates(applied.message, tool))
    /\ \A tool \in Range(getAllTools(applied.tools)) :
          /\ CandidatesInRange(ExampleCandidates(applied.message, tool), Conf(1, 2), Conf(1, 1))
          /\ CandidatesInRange(NameCandidates(applied.message, tool), Conf(6, 10), Conf(8, 10))
          /\ CandidatesInRange(DescCandidates(applied.message, tool), Conf(5, 10), Conf(6, 10))
    /\ AtLeast(applied.matches, threshold) = applied.matches
    /\ AtLeast(applied.matches, lowerThreshold) = applied.matches
    /\ applied.fastPathMatches = SortByConfidence(applied.matches)
    /\ (Len(applied.fastPathMatches) = 0 <=> Len(applied.matches) = 0)

\* a routing whose pool holds a candidate of each kind at an end of its range
C37_Witness ==
  /\ applied.fn = "route"
  /\ \E tool \in Range(getAllTools(applied.tools)) :
        /\ \E i \in 1..Len(NameCandidates(applied.message, tool)) :
              NameCandidates(applied.message, tool)[i].confidence = Conf(4, 5)
              /\ NameCandidates(applied.message, tool)[i] \in Range(applied.matches)
  /\ \E tool \in Range(getAllTools(applied.tools)) :
        Len(DescCandidates(applied.message, tool)) > 0
        /\ Range(DescCandidates(applied.message, tool)) \subseteq Range(applied.fastPathMatches)
  /\ \E tool \in Range(getAllTools(applied.tools)) :
        Len(ExampleCandidates(applied.message, tool)) > 0
        /\ Range(ExampleCandidates(applied.message, tool)) \subseteq Range(applied.fastPathMatches)

====
